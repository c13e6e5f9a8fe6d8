----------------------------- MODULE ImageAudit -----------------------------
(***************************************************************************)
(* forensic/src/lib.rs: audit_image.  It opens the image, reports the      *)
(* unreadable regions, streams the ImageStream chunk by chunk through all  *)
(* hashers at once (Aff4Reader::read_image_stream_content), and compares.  *)
(*                                                                         *)
(* A digest is abstracted by what it is the digest of: a stored hash is an *)
(* algorithm (its datatype in upper case) and the content `of` it was      *)
(* taken over, and two digests are equal when the contents are.            *)
(***************************************************************************)
EXTENDS DiskContent

CONSTANT Files

ASSUME FilesAssumption == \A f \in Files : IsContainer(f)

VARIABLES file,
          stage,      \* "open", "collect", "feed", "compare" or "done"
          rd,         \* the opened reader
          jobs,       \* stored hashes that have a hasher
          idx,        \* next chunk to read, or next job to compare
          fed,        \* what every hasher has been updated with
          anomalies,  \* findings collected so far
          result      \* what audit_image returned

vars == <<file, stage, rd, jobs, idx, fed, anomalies, result>>

Pending == [res |-> "pending", findings |-> <<>>]
Report(findings) == [res |-> "ok", findings |-> findings]
Failure == [res |-> "err", findings |-> <<>>]

HashUnreadable(region) == [kind |-> "HashUnreadable", region |-> region, algorithm |-> ""]
HashMismatch(algorithm) == [kind |-> "HashMismatch", region |-> <<0, 0>>, algorithm |-> algorithm]

\* Hasher::for_algorithm
Supported == {"MD5", "SHA1", "SHA256", "SHA512", "BLAKE2B"}

Init ==
    /\ file \in Files
    /\ stage = "open"
    /\ rd = [mapped |-> FALSE]
    /\ jobs = <<>>
    /\ idx = 0
    /\ fed = <<>>
    /\ anomalies = <<>>
    /\ result = Pending

Return(r) == stage' = "done" /\ result' = r

Open ==
    /\ stage = "open"
    /\ \E o \in {OpenReader(file)} :
        IF o.ok
        THEN stage' = "collect" /\ rd' = o.val /\ UNCHANGED result
        ELSE Return(Failure) /\ UNCHANGED rd
    /\ UNCHANGED <<file, jobs, idx, fed, anomalies>>

\* The stored hashes this build can compute, in their order.
Computable(hashes) == {i \in 1 .. Len(hashes) : hashes[i].algorithm \in Supported}

\* Mutant: a hash that has no hasher gets a job all the same.
JobsUnfiltered(hashes) == hashes

JobsOf(hashes) == Arrange(hashes, Computable(hashes), Ascending(Computable(hashes)))

\* Unreadable regions are reported first; without a job the content is not
\* read at all.
Collect ==
    /\ stage = "collect"
    /\ \E regions \in {UnreadableRegions(rd.loaded_map)} :
        anomalies' = [k \in 1 .. Len(regions) |-> HashUnreadable(regions[k])]
    /\ jobs' = JobsOf(rd.image_hashes)
    /\ IF jobs' = <<>> THEN Return(Report(anomalies'))
       ELSE stage' = "feed" /\ UNCHANGED result
    /\ UNCHANGED <<file, rd, idx, fed>>

\* Mutant: the last chunk is not cut to the declared size.
FeedUncut ==
    /\ stage = "feed"
    /\ idx < NumChunks(rd)
    /\ \E chunk \in {ReadChunk(rd, idx)} :
        IF chunk.ok
        THEN fed' = fed \o chunk.val /\ idx' = idx + 1 /\ UNCHANGED <<stage, result>>
        ELSE Return(Failure) /\ UNCHANGED <<fed, idx>>
    /\ UNCHANGED <<file, rd, jobs, anomalies>>

\* Mutant: a chunk that cannot be read is tried again for ever.
FeedRetries ==
    /\ stage = "feed"
    /\ idx < NumChunks(rd)
    /\ \E chunk \in {ReadChunk(rd, idx)} :
        /\ chunk.ok
        /\ fed' = fed \o Slice(chunk.val, 0, Least(Len(chunk.val), rd.image_stream_size - Len(fed)))
        /\ idx' = idx + 1
    /\ UNCHANGED <<file, stage, rd, jobs, anomalies, result>>

\* One turn of read_image_stream_content; the last chunk is cut to the size.
Feed ==
    /\ stage = "feed"
    /\ idx < NumChunks(rd)
    /\ \E chunk \in {ReadChunk(rd, idx)} :
        IF chunk.ok
        THEN LET take == Least(Len(chunk.val), rd.image_stream_size - Len(fed))
             IN  /\ fed' = fed \o Slice(chunk.val, 0, take)
                 /\ idx' = idx + 1
                 /\ UNCHANGED <<stage, result>>
        ELSE Return(Failure) /\ UNCHANGED <<fed, idx>>
    /\ UNCHANGED <<file, rd, jobs, anomalies>>

\* The same turn when the medium fails: the findings collected so far go.
FeedFault ==
    /\ stage = "feed"
    /\ idx < NumChunks(rd)
    /\ Return(Failure)
    /\ UNCHANGED <<file, rd, jobs, idx, fed, anomalies>>

FeedEnd ==
    /\ stage = "feed"
    /\ idx >= NumChunks(rd)
    /\ stage' = "compare"
    /\ idx' = 0
    /\ UNCHANGED <<file, rd, jobs, fed, anomalies, result>>

\* Mutant: the comparison stops at the first mismatch.
CompareFirst ==
    /\ stage = "compare"
    /\ idx < Len(jobs)
    /\ IF fed # jobs[idx + 1].of
       THEN anomalies' = Append(anomalies, HashMismatch(jobs[idx + 1].algorithm)) /\ idx' = Len(jobs)
       ELSE anomalies' = anomalies /\ idx' = idx + 1
    /\ UNCHANGED <<file, stage, rd, jobs, fed, result>>

Compare ==
    /\ stage = "compare"
    /\ idx < Len(jobs)
    /\ anomalies' = IF fed # jobs[idx + 1].of
                    THEN Append(anomalies, HashMismatch(jobs[idx + 1].algorithm))
                    ELSE anomalies
    /\ idx' = idx + 1
    /\ UNCHANGED <<file, stage, rd, jobs, fed, result>>

CompareEnd ==
    /\ stage = "compare"
    /\ idx >= Len(jobs)
    /\ Return(Report(anomalies))
    /\ UNCHANGED <<file, rd, jobs, idx, fed, anomalies>>

Verify == Collect \/ Feed \/ FeedEnd \/ Compare \/ CompareEnd

Next == Open \/ Verify \/ FeedFault

Spec == Init /\ [][Next]_vars

\* The audit is one thread that runs to its end.
FairSpec == Spec /\ WF_vars(Verify)

-----------------------------------------------------------------------------
(* Properties                                                              *)

Opened == stage \in {"collect", "feed", "compare"}

\* `chosen` are the elements of s at the positions S, each once, in their order.
Selects(chosen, s, S) ==
    \E at \in [1 .. Len(chosen) -> S] :
        /\ \A i \in S : \E k \in 1 .. Len(chosen) : at[k] = i
        /\ \A k, l \in 1 .. Len(chosen) : k < l => at[k] < at[l]
        /\ \A k \in 1 .. Len(chosen) : chosen[k] = s[at[k]]

\* The audit works on a sound reader, and returns exactly when it is done.  It makes
\* its pass over the content only for a job, and has one for each declared hash that
\* has a hasher, in the order declared, and none without a hasher.
TypeOK ==
    /\ file \in Files
    /\ stage \in {"open", "collect", "feed", "compare", "done"}
    /\ Opened => IsReader(rd)
    /\ stage \in {"feed", "compare"} =>
          jobs # <<>> /\ Selects(jobs, rd.image_hashes, Computable(rd.image_hashes))
    /\ idx \in Nat
    /\ fed \in Seq(Byte)
    /\ (result = Pending) = (stage # "done")

\* What the hashers have seen is the content of the stream so far: no chunk
\* is left out, fed twice or fed with its padding, and never more than the
\* declared size.
HashersSeeContent ==
    stage = "feed" /\ WellStored(rd, file.plain) =>
        fed = SubSeq(file.plain, 1, Least(idx * rd.chunk_size, rd.image_stream_size))

\* One finding for each unreadable entry of the map, in map order.
UnreadableEntries ==
    {e \in {rd.loaded_map.entries[i] : i \in 1 .. Len(rd.loaded_map.entries)} :
        KindOf(rd.loaded_map, e) = UnreadableTile}

IsRegionReport(fs) ==
    /\ Len(fs) = Cardinality(UnreadableEntries)
    /\ {fs[k] : k \in 1 .. Len(fs)}
          = {HashUnreadable(<<e.map_offset, e.length>>) : e \in UnreadableEntries}
    /\ \A k, l \in 1 .. Len(fs) : k < l => fs[k].region[1] < fs[l].region[1]

\* One finding for each supported hash that was taken over another content,
\* in the order the image declares them.
MismatchesOf(hashes) == [i \in 1 .. Len(hashes) |-> HashMismatch(hashes[i].algorithm)]

IsMismatchReport(fs) ==
    Selects(fs, MismatchesOf(rd.image_hashes),
            {i \in Computable(rd.image_hashes) : rd.image_hashes[i].of # file.plain})

\* audit_image (its doc): one finding per unreadable region and one per
\* digest divergence, nothing else and none missing, whenever it returns;
\* what it could not read it does not report on.
FindingsExact ==
    result.res = "ok" /\ WellStored(rd, file.plain)
                      /\ WellMapped(rd.loaded_map, rd.image_stream_size) =>
        \E cut \in 0 .. Len(result.findings) :
            /\ IsRegionReport(SubSeq(result.findings, 1, cut))
            /\ IsMismatchReport(SubSeq(result.findings, cut + 1, Len(result.findings)))

\* The audit of every image that opens comes to an end, also when chunks are
\* missing, short or unreadable.
AuditEnds == Opened ~> stage = "done"

\* The doc of audit_image (lib.rs): an empty result means every declared
\* hash reconciled and no region was unreadable.
EmptyMeansReconciled ==
    result.res = "ok" /\ result.findings = <<>> /\ WellStored(rd, file.plain) =>
        \A k \in 1 .. Len(rd.image_hashes) : rd.image_hashes[k].of = file.plain
=============================================================================
