------------------------------ MODULE TurtleText ------------------------------
(***************************************************************************)
(* core/src/meta.rs below its parsers: how the answers that Metadata and   *)
(* VolumeMetadata ask of a block are found in the text.                    *)
(*                                                                         *)
(* A text is a sequence of symbols: the characters the code looks for      *)
(* (white space and the Delimiters), and words without any of them.  A     *)
(* numeral, the hex digits of a literal and a prefixed name are one word   *)
(* each; an IRI or a file name is one word or several, so that one can be  *)
(* part of another.  "^^aff4:" and the algorithm after it are two words.   *)
(***************************************************************************)
EXTENDS U64, VolumeMetadata, TLC

CONSTANT Hex   \* words of hex digits: [even |-> an even number of them, means |-> what they encode]

Delimiters == {";", ".", ",", "\"", "<", ">"}

\* The markers that a word contains, other than itself.
Containing ==
    { <<"aff4:ImageStream", "ImageStream">>, <<"aff4:SymbolicStreamFF", "SymbolicStreamFF">>,
      <<"http://code.google.com/p/snappy/", "snappy">>,
      <<"https://www.ietf.org/rfc/rfc1950.txt", "deflate">>, <<"aff4:DeflateCompressor", "deflate">>,
      <<"https://github.com/lz4/lz4", "lz4">>, <<"aff4:PasswordWrappedKeyBag", "PasswordWrappedKeyBag">>,
      <<"aff4:PasswordWrappedKeyBag", "KeyBag">>, <<"aff4:CertEncryptedKeyBag", "KeyBag">> }

VolumeMarker == {"aff4:FileImage", "KeyBag", "PasswordWrappedKeyBag"}

Texts == Seq(STRING)

\* A word: the characters of all symbols in a row.
Spell(s) == LET spelled[t \in Texts] == IF t = <<>> THEN "" ELSE Head(t) \o spelled[Tail(t)]
            IN  spelled[s]

\* The positions 1 .. n that satisfy P, in order.
Positions(n, P(_)) == SelectSeq([i \in 1 .. n |-> i], P)

Occurs(w, b) == \E i \in 0 .. Len(b) - Len(w) : SubSeq(b, i + 1, i + Len(w)) = w

\* Position of the first symbol c from i on, 0 when there is none.
FindFrom(b, i, c) ==
    LET at == {j \in i .. Len(b) : b[j] = c}
    IN  IF at = {} THEN 0 ELSE CHOOSE j \in at : \A k \in at : j <= k

\* What stands between the first `open` from i on and the next `close`.
Between(b, i, open, close) ==
    LET start == FindFrom(b, i, open)
        end == FindFrom(b, start + 1, close)
    IN  IF start = 0 \/ end = 0 THEN Missing ELSE Ok(Spell(SubSeq(b, start + 1, end - 1)))

\* Mutant: a semicolon stays where it is, also right behind a value.
NormalizeKeepsLinks(t) == [i \in 1 .. Len(t) |-> IF t[i] \in {"\n", "\r", "\t"} THEN " " ELSE t[i]]

NormalizeTurtle(t) == [i \in 1 .. Len(t) |-> IF t[i] \in {"\n", "\r", "\t", ";"} THEN " " ELSE t[i]]

\* `normalized.split(" . ")`: separators do not overlap.
BlockTexts(t) ==
    LET Dot(i) == i + 2 <= Len(t) /\ SubSeq(t, i, i + 2) = <<" ", ".", " ">>
        cut[i \in 1 .. Len(t)] == Dot(i) /\ ~(i > 2 /\ cut[i - 2])
        cuts == <<-2>> \o Positions(Len(t), LAMBDA i : cut[i]) \o <<Len(t) + 1>>
    IN  [k \in 1 .. Len(cuts) - 1 |-> SubSeq(t, cuts[k] + 3, cuts[k + 1] - 1)]

\* `block.split_whitespace()`
Tokens(b) ==
    LET first == Positions(Len(b), LAMBDA i : b[i] # " " /\ (i = 1 \/ b[i - 1] = " "))
        last == Positions(Len(b), LAMBDA i : b[i] # " " /\ (i = Len(b) \/ b[i + 1] = " "))
    IN  [k \in 1 .. Len(first) |-> SubSeq(b, first[k], last[k])]

\* The tokens that follow the token `predicate`, in order.
After(tokens, predicate) ==
    LET at == Positions(Len(tokens), LAMBDA k : k < Len(tokens) /\ tokens[k] = <<predicate>>)
    IN  [k \in 1 .. Len(at) |-> tokens[at[k] + 1]]

ExtractIri(b) == LET iri == Between(b, 1, "<", ">") IN IF iri.ok THEN iri.val ELSE NoArn

\* The symbols of the IRI, <<>> when no value is one.
ExtractPredIri(tokens, predicate) ==
    LET iris == SelectSeq(After(tokens, predicate), LAMBDA v : v[1] = "<" /\ v[Len(v)] = ">")
    IN  IF iris = <<>> THEN <<>> ELSE SubSeq(iris[1], 2, Len(iris[1]) - 1)

\* The first value decides, when it is the numeral of one of the numbers.
NumberAfter(tokens, predicate, numbers) ==
    LET values == After(tokens, predicate)
        digits == SelectSeq(values[1], LAMBDA c : c # "\"")
    IN  IF values = <<>> \/ digits = <<>> THEN NoNumber
        ELSE IF \E n \in numbers : ToString(n) = digits[1] THEN CHOOSE n \in numbers : ToString(n) = digits[1]
        ELSE NoNumber

\* Mutant: a number too large for u64 is taken as it is.
ExtractPredDigits(tokens, predicate) == NumberAfter(tokens, predicate, 0 .. 2 * Word)

\* A word that is no numeral begins with no digit.
ExtractPredU64(tokens, predicate) == NumberAfter(tokens, predicate, U64s)

\* Mutant: the literal is taken from the token after the predicate.
QuotedToken(b, predicate) ==
    LET values == After(Tokens(b), predicate)
    IN  IF values = <<>> THEN Missing ELSE Between(values[1], 1, "\"", "\"")

\* The first literal anywhere after the predicate.
ExtractPredQuoted(b, predicate) ==
    LET p == FindFrom(b, 1, predicate)
    IN  IF p = 0 THEN Missing ELSE Between(b, p + 1, "\"", "\"")

\* Mutant: what the serializer writes right after the datatype is kept.
Untrimmed(s) == s

\* `dtype.trim_end_matches(..)`
Trimmed(s) ==
    LET name == {k \in 1 .. Len(s) : s[k] \notin Delimiters}
    IN  IF name = {} THEN <<>> ELSE SubSeq(s, 1, CHOOSE k \in name : \A j \in name : j <= k)

\* "<hex>"^^aff4:<ALGO>
ParseHashTerm(t) ==
    LET close == {k \in 2 .. Len(t) - 1 : t[k] = "\"" /\ t[k + 1] = "^^aff4:"}
        q == CHOOSE k \in close : \A j \in close : k <= j
        hex == Spell(SubSeq(t, 2, q - 1))
        algorithm == Spell(Trimmed(SubSeq(t, q + 2, Len(t))))
    IN  IF t[1] # "\"" \/ close = {} \/ hex \notin DOMAIN Hex \/ algorithm = "" THEN Missing
        ELSE Ok([algorithm |-> algorithm, of |-> Hex[hex].means])

\* The terms after each aff4:hash, up to the first token that is neither one nor a comma.
ParseImageHashes(tokens) ==
    LET term == [j \in 1 .. Len(tokens) |-> ParseHashTerm(tokens[j])]
        listed[j \in 1 .. Len(tokens)] ==
            /\ j > 1
            /\ \/ tokens[j - 1] = <<"aff4:hash">>
               \/ (tokens[j - 1] = <<",">> \/ term[j - 1].ok) /\ listed[j - 1]
        found == Positions(Len(tokens), LAMBDA j : term[j].ok /\ listed[j])
    IN  [k \in 1 .. Len(found) |-> term[found[k]].val]

\* Mutant: half a byte at the end is dropped.
HexDecodesLax(literal) == literal.ok /\ literal.val \in DOMAIN Hex

\* Does the literal decode (extract_pred_quoted and_then hex_decode)?
HexDecodes(literal) == literal.ok /\ literal.val \in DOMAIN Hex /\ Hex[literal.val].even

\* The markers among or inside some words.
Mentions(words, markers) == {m \in markers : \E w \in words : w = m \/ <<w, m>> \in Containing}

Symbols(b) == {b[i] : i \in 1 .. Len(b)}

----------------------------------------------------------------------------
\* What parse_turtle learns of a block; arns: of the IRIs that it looks for.
DiskAnswers(block, arns) ==
    [words |-> Mentions(Symbols(block.text), Marker),
     arns |-> {Spell(a) : a \in {x \in arns : Occurs(x, block.text)}},
     iri |-> ExtractIri(block.text),
     size |-> ExtractPredU64(block.tokens, "aff4:size"),
     chunkSize |-> ExtractPredU64(block.tokens, "aff4:chunkSize"),
     chunksInSegment |-> ExtractPredU64(block.tokens, "aff4:chunksInSegment"),
     dependentStream |-> Spell(ExtractPredIri(block.tokens, "aff4:dependentStream")),
     hashes |-> ParseImageHashes(block.tokens)]

\* And what parse_logical_files and parse_encrypted_meta learn.
VolumeAnswers(block, arns) ==
    LET salt == ExtractPredQuoted(block.text, "aff4:salt")
        wrapped == ExtractPredQuoted(block.text, "aff4:wrappedKey")
    IN  [words |-> Mentions(Symbols(block.text), Marker \cup VolumeMarker),
         name |-> ExtractPredQuoted(block.text, "aff4:originalFileName"),
         lastWritten |-> ExtractPredQuoted(block.text, "aff4:lastWritten"),
         keyBag |-> Spell(ExtractPredIri(block.tokens, "aff4:keyBag")),
         iterations |-> ExtractPredU64(block.tokens, "aff4:iterations"),
         keySize |-> ExtractPredU64(block.tokens, "aff4:keySizeInBytes"),
         salt |-> IF HexDecodes(salt) THEN Hex[salt.val].means ELSE NoSalt,
         wrappedKey |-> IF HexDecodes(wrapped) THEN [hex |-> TRUE] @@ Hex[wrapped.val].means
                        ELSE [hex |-> FALSE]] @@ DiskAnswers(block, arns)

\* The blocks of a text, and the tokens of each.
NormalizedBlocks(t) ==
    LET texts[s \in Texts] == BlockTexts(s)
        tokenized[bs \in Seq(Texts)] == [k \in 1 .. Len(bs) |-> [text |-> bs[k], tokens |-> Tokens(bs[k])]]
    IN  tokenized[texts[NormalizeTurtle(t)]]

\* The IRIs that a block may be looked for by.
ArnsSought(blocks) ==
    UNION {{ExtractPredIri(blocks[k].tokens, "aff4:dependentStream"),
            ExtractPredIri(blocks[k].tokens, "aff4:keyBag")} : k \in 1 .. Len(blocks)} \ {<<>>}

\* The blocks of a text, each as its answers.
DiskBlocks(t) ==
    LET answers[blocks \in Seq([text : Texts, tokens : Seq(Texts)])] ==
            [k \in 1 .. Len(blocks) |-> DiskAnswers(blocks[k], ArnsSought(blocks))]
    IN  answers[NormalizedBlocks(t)]

VolumeBlocks(t) ==
    LET answers[blocks \in Seq([text : Texts, tokens : Seq(Texts)])] ==
            [k \in 1 .. Len(blocks) |-> VolumeAnswers(blocks[k], ArnsSought(blocks))]
    IN  answers[NormalizedBlocks(t)]
=============================================================================
