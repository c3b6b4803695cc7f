----------------------------- MODULE RsyncFetch -----------------------------
(***************************************************************************)
(* The transfer of a dump (internal/dbsync/rsync.go): Begin asks for the   *)
(* file list and fetches the info file, Rest fetches the other files with  *)
(* a pool of workers, each file in chunks over its own connection.  The    *)
(* master may replace its snapshot at any time; every answer names the     *)
(* snapshot it was read from.                                              *)
(***************************************************************************)
EXTENDS Integers, Sequences, FiniteSets

CONSTANTS
  Files,       \* the file list of a snapshot: a sequence of names
  Chunks,      \* number of chunks of each file
  Workers,     \* size of the pool
  MaxBgsaves,  \* bound on the snapshots the master takes meanwhile
  FetchFaults  \* subset of {"timeout", "conn"}

FileNames == {Files[i] : i \in 1 .. Len(Files)}
Work == SelectSeq(Files, LAMBDA f : f # "info")

ASSUME FilesAssumption ==
  /\ "info" \in FileNames /\ FileNames \cap {"idle", "stopped"} = {}
  /\ Chunks \in [FileNames -> Nat \ {0}]
  /\ Workers # {} /\ MaxBgsaves \in Nat /\ FetchFaults \subseteq {"timeout", "conn"}

\* The list names no file twice, so the work list names each file but info once.
ASSUME WorkAssumption ==
  /\ Work \in Seq(FileNames \ {"info"})
  /\ \A f \in FileNames \ {"info"} : \E i \in 1 .. Len(Work) : Work[i] = f
  /\ \A i, j \in 1 .. Len(Work) : Work[i] = Work[j] => i = j

VARIABLES
  uuid,    \* the master's current snapshot
  want,    \* the snapshot the file list came from
  fpc,     \* meta, info, rest, ok, failed
  next,    \* index into the work list
  firstE,  \* a worker has failed
  job,     \* what each worker does: a file, idle, stopped
  local    \* the dump folder: per file the snapshots its chunks came from

fetchVars == <<uuid, want, fpc, next, firstE, job, local>>

FetchInit ==
  /\ uuid = 1 /\ want = 0 /\ fpc = "meta" /\ next = 1 /\ firstE = FALSE
  /\ job = [w \in Workers |-> "idle"] /\ local = [f \in FileNames |-> <<>>]

\* The master's next bgsave, external.
NewBgsave ==
  /\ fpc \notin {"ok", "failed"} /\ uuid <= MaxBgsaves /\ uuid' = uuid + 1
  /\ UNCHANGED <<want, fpc, next, firstE, job, local>>

\* Begin removes the old folder; fetchMeta repeats the request until the bgsave
\* is there, or gives up.
FetchMeta ==
  /\ fpc = "meta"
  /\ \/ fpc' = "info" /\ want' = uuid
     \/ "timeout" \in FetchFaults /\ fpc' = "failed" /\ want' = want
  /\ UNCHANGED <<uuid, next, firstE, job, local>>

\* Altered form: the answer's snapshot is not compared.
FetchChunkAnySnapshot(f) ==
  /\ Len(local[f]) < Chunks[f]
  /\ local' = [local EXCEPT ![f] = Append(@, uuid)]

\* fetchFile: one request and answer, of the snapshot the list came from.
FetchChunk(f) ==
  /\ Len(local[f]) < Chunks[f] /\ uuid = want
  /\ local' = [local EXCEPT ![f] = Append(@, uuid)]

\* fetchFile returns an error: another snapshot answers, or the connection fails.
FetchFileFails(f) ==
  /\ Len(local[f]) < Chunks[f]
  /\ uuid # want \/ "conn" \in FetchFaults

FetchInfo ==
  /\ fpc = "info"
  /\ \/ FetchChunk("info") /\ fpc' = fpc
     \/ FetchFileFails("info") /\ fpc' = "failed" /\ local' = local
     \/ Len(local["info"]) = Chunks["info"] /\ fpc' = "rest" /\ local' = local
  /\ UNCHANGED <<uuid, want, next, firstE, job>>

\* A worker takes the next file under mu and fetchFile truncates the local one ...
WorkerTake(w) ==
  /\ fpc = "rest" /\ job[w] = "idle" /\ ~firstE /\ next <= Len(Work)
  /\ job' = [job EXCEPT ![w] = Work[next]] /\ next' = next + 1
  /\ local' = [local EXCEPT ![Work[next]] = <<>>]
  /\ UNCHANGED <<uuid, want, fpc, firstE>>

\* ... or finds that nothing is left, or that another worker has failed.
WorkerStop(w) ==
  /\ fpc = "rest" /\ job[w] = "idle"
  /\ firstE \/ next > Len(Work)
  /\ job' = [job EXCEPT ![w] = "stopped"]
  /\ UNCHANGED <<uuid, want, fpc, next, firstE, local>>

WorkerFetch(w) ==
  /\ job[w] \in FileNames
  /\ \/ FetchChunk(job[w]) /\ job' = job /\ firstE' = firstE
     \/ /\ Len(local[job[w]]) >= Chunks[job[w]]
        /\ job' = [job EXCEPT ![w] = "idle"] /\ UNCHANGED <<firstE, local>>
     \/ /\ FetchFileFails(job[w])
        /\ job' = [job EXCEPT ![w] = "stopped"] /\ firstE' = TRUE /\ local' = local
  /\ UNCHANGED <<uuid, want, fpc, next>>

\* wg.Wait returns.
RestDone ==
  /\ fpc = "rest" /\ \A w \in Workers : job[w] = "stopped"
  /\ fpc' = IF firstE THEN "failed" ELSE "ok"
  /\ UNCHANGED <<uuid, want, next, firstE, job, local>>

FetchStep ==
  \/ FetchMeta \/ FetchInfo \/ RestDone
  \/ \E w \in Workers : WorkerTake(w) \/ WorkerStop(w) \/ WorkerFetch(w)

FetchSpec == FetchInit /\ [][NewBgsave \/ FetchStep]_fetchVars

\* Every file has all its chunks, each of the snapshot the list came from.
OneSnapshot ==
  \A f \in FileNames :
    Len(local[f]) = Chunks[f] /\ \A i \in 1 .. Len(local[f]) : local[f][i] = want

=============================================================================
