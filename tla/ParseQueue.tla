----------------------------- MODULE ParseQueue -----------------------------
(* GPX files parsed off the request thread (lib/parseGpxOffThread.js,         *)
(* lib/gpxWorker.js): a bounded number of worker threads, the rest waits in   *)
(* arrival order.                                                             *)
EXTENDS Naturals, Sequences, FiniteSets, SequencesExt

CONSTANTS
  Parses,        \* the uploads that parse a file
  Mixes,         \* what the files hold: functions from Parses to Contents
  MaxParses      \* MAX_CONCURRENT_PARSES

Contents == {"ride", "notGpx", "noTrack", "crafted", "bug"}

ASSUME ParseQueueAssumption == MaxParses \in Nat \ {0} /\ Mixes \subseteq [Parses -> Contents]

VARIABLES
  content,    \* of each file: what a worker makes of it
  waiting,    \* the queue
  running,    \* the counter
  arrivals, starts,   \* the order files came in and were started in
  thread,     \* of each parse: "none", "parsing", "posted", "ended"
  outcome,    \* of each parse's promise: "none", a track or an error
  freed       \* the parses whose finally has run

parseVars == <<content, waiting, running, arrivals, starts, thread, outcome, freed>>

-----------------------------------------------------------------------------

ParseInit ==
  /\ content \in Mixes
  /\ waiting = <<>> /\ running = 0 /\ arrivals = <<>> /\ starts = <<>> /\ freed = {}
  /\ thread = [p \in Parses |-> "none"] /\ outcome = [p \in Parses |-> "none"]

\* Mutant: the place of a parse is given away before it is free.
HasRoomAnyway(count, queue) == queue # <<>>
HasRoom(count, queue) == count < MaxParses /\ queue # <<>>

(* startNext, with count parses running and queue waiting.                   *)
startNext(count, queue) ==
  IF HasRoom(count, queue)
  THEN /\ running' = count + 1 /\ waiting' = Tail(queue)
       /\ starts' = Append(starts, Head(queue))
       /\ thread' = [thread EXCEPT ![Head(queue)] = "parsing"]
  ELSE running' = count /\ waiting' = queue /\ UNCHANGED <<starts, thread>>

enqueued(p) == Append(waiting, p)

parseGpxOffThread(p) ==
  /\ p \notin Range(arrivals) /\ arrivals' = Append(arrivals, p)
  /\ startNext(running, enqueued(p)) /\ UNCHANGED <<content, outcome, freed>>

(* A promise settles once.                                                   *)
Settle(p, result) ==
  outcome' = IF outcome[p] = "none" THEN [outcome EXCEPT ![p] = result] ELSE outcome

(* parseToMessage, and toError: errors cross the thread as plain data.       *)
Message(p) ==
  CASE content[p] = "ride" -> "track" [] content[p] = "notGpx" -> "InvalidGpxError"
    [] content[p] = "noTrack" -> "NoTrackPointsError" [] OTHER -> "Error"

WorkerPosts(p) ==
  /\ thread[p] = "parsing" /\ content[p] # "crafted"
  /\ thread' = [thread EXCEPT ![p] = "posted"] /\ Settle(p, Message(p))
  /\ UNCHANGED <<content, waiting, running, arrivals, starts, freed>>

workerFailure(cause) == IF cause = "outOfMemory" THEN "InvalidGpxError" ELSE "Error"

(* An error event: out of memory, or the thread itself failed.               *)
WorkerFails(p, cause) ==
  /\ thread[p] = "parsing" /\ (cause = "outOfMemory" <=> content[p] = "crafted")
  /\ thread' = [thread EXCEPT ![p] = "posted"] /\ Settle(p, workerFailure(cause))
  /\ UNCHANGED <<content, waiting, running, arrivals, starts, freed>>

(* The exit event: without a message only if the thread was stopped.         *)
WorkerExits(p) ==
  /\ thread[p] \in {"parsing", "posted"} /\ thread' = [thread EXCEPT ![p] = "ended"]
  /\ Settle(p, "Error") /\ UNCHANGED <<content, waiting, running, arrivals, starts, freed>>

\* Mutant: only a parse that brought a track gives its place back.
FinallyOnSuccess(p) ==
  /\ outcome[p] = "track" /\ p \notin freed /\ freed' = freed \cup {p}
  /\ startNext(running - 1, waiting) /\ UNCHANGED <<content, arrivals, outcome>>
(* A microtask after the promise settled.                                    *)
Finally(p) ==
  /\ outcome[p] # "none" /\ p \notin freed /\ freed' = freed \cup {p}
  /\ startNext(running - 1, waiting) /\ UNCHANGED <<content, arrivals, outcome>>

ParseNext ==
  \E p \in Parses :
    \/ parseGpxOffThread(p) \/ WorkerPosts(p) \/ WorkerExits(p) \/ Finally(p)
    \/ \E cause \in {"outOfMemory", "failed"} : WorkerFails(p, cause)

-----------------------------------------------------------------------------

(* Never more files are parsed at once than an instance has memory for, and  *)
(* no place is lost or idle while a file waits, however the others end.      *)
PlacesKept ==
  /\ Cardinality({p \in Parses : thread[p] = "parsing"}) <= MaxParses
  /\ running = Len(starts) - Cardinality(freed)
  /\ waiting # <<>> => running = MaxParses

(* Files are started in the order they came.                                 *)
FirstComeFirstServed == starts \o waiting = arrivals

(* An upload is refused for its file only when the file is at fault, a       *)
(* failure of the server is never the rider's.                               *)
RightBlame ==
  \A p \in Parses :
    /\ outcome[p] = "track" => content[p] = "ride"
    /\ outcome[p] = "NoTrackPointsError" => content[p] = "noTrack"
    /\ outcome[p] = "InvalidGpxError" => content[p] \in {"notGpx", "crafted"}

(* As long as every thread ends, every upload gets its answer: one that      *)
(* crashes or runs out of memory holds nobody up.                            *)
EveryParseEnds == []<>(\A p \in Range(arrivals) : outcome[p] # "none")

(* The pool serves every upload in its turn and tells it the truth, however  *)
(* the other threads end (parseGpxOffThread.js:27).                          *)
ParsesServed == PlacesKept /\ FirstComeFirstServed /\ RightBlame

=============================================================================
