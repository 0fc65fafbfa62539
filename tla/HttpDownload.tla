---------------------------- MODULE HttpDownload ----------------------------
(***************************************************************************)
(* GET /dl/{token} (app/api/routes.py): a request opens one materialized   *)
(* item, checks it and streams its file while a task renews the lease; the *)
(* client may stall or leave at any moment and the server may cancel the   *)
(* request again while it cleans up. The item is shared by the requests    *)
(* for it, as SharedMedia shows; here the last user's release deletes it.  *)
(***************************************************************************)
EXTENDS Integers, FiniteSets

CONSTANTS
    Reqs,         \* requests for one link
    Chunks,       \* chunks of the file
    MaxFaults     \* bound: cancellations, failing renewals and reads

\* What the constants must satisfy.
HttpAssumption == Chunks \in Nat /\ MaxFaults \in Nat

VARIABLES
    req,          \* each request: its place, its renewal task, what it has sent
    users,        \* requests between __aenter__ and the end of __aexit__
    file,         \* the materialized file: "none", "kept", or "expired" when its lease ran out
    faults

vars == <<req, users, file, faults>>

Places == {"idle", "opening", "check", "start", "read", "send", "unwind", "aclose", "exit", "over"}
Renewals == {"none", "running", "failed", "stopped"}

(* Every variable keeps its type.                                          *)
TypeOK ==
    /\ req \in [Reqs -> [at : Places, renewal : Renewals, thread : BOOLEAN, cut : BOOLEAN,
                         released : BOOLEAN, exits : 0 .. 2, sent : 0 .. Chunks + 1]]
    /\ users \subseteq Reqs
    /\ file \in {"none", "kept", "expired"}
    /\ faults \in 0 .. MaxFaults

Init ==
    /\ req = [r \in Reqs |-> [at |-> "idle", renewal |-> "none", thread |-> FALSE, cut |-> FALSE,
                              released |-> FALSE, exits |-> 0, sent |-> 0]]
    /\ users = {} /\ file = "none" /\ faults = 0

Goes(r, place) == req' = [req EXCEPT ![r].at = place]
Fault == faults < MaxFaults /\ faults' = faults + 1

(* The token is known and the IP and link buckets allow the request; or    *)
(* the request is answered 404 or 429 without opening anything.            *)
Enter(r) ==
    /\ req[r].at = "idle"
    /\ \E place \in {"opening", "over"} : Goes(r, place)
    /\ UNCHANGED <<users, file, faults>>

(* open_materialized returns a file with a fresh lease, or the request is  *)
(* answered 502; a request cancelled here leaves nothing behind.           *)
Open(r) ==
    /\ req[r].at = "opening"
    /\ \/ /\ file # "expired" /\ Goes(r, "check") /\ users' = users \cup {r} /\ file' = "kept"
       \/ /\ Goes(r, "over") /\ UNCHANGED <<users, file>>
    /\ UNCHANGED faults

(* More than one path (409) or too many bytes (413) exits the lease before *)
(* the answer; otherwise the response starts.                              *)
Check(r) ==
    /\ req[r].at = "check"
    /\ \E place \in {"start", "exit"} :
           req' = [req EXCEPT ![r].at = place, ![r].released = (place = "exit")]
    /\ UNCHANGED <<users, file, faults>>

(* The response head is sent; the generator's first step creates the       *)
(* renewal task and opens the file.                                        *)
StartStream(r) ==
    /\ req[r].at = "start"
    /\ req' = [req EXCEPT ![r].at = IF file = "kept" THEN "read" ELSE "unwind",
                          ![r].renewal = "running", ![r].thread = (file = "kept")]
    /\ UNCHANGED <<users, file, faults>>

(* A renewal that fails leaves its error in the task: a fault of the disk, *)
(* or the lease expired before.                                            *)
RenewalFails(r) ==
    /\ req[r].renewal = "running"
    /\ \/ file = "expired" /\ UNCHANGED faults
       \/ file # "expired" /\ Fault
    /\ req' = [req EXCEPT ![r].renewal = "failed"]
    /\ UNCHANGED <<users, file>>

(* The read thread ends. Whoever was cancelled meanwhile goes on to unwind:*)
(* closing the file waits for the thread.                                  *)
ReadEnds(r) ==
    /\ req[r].at \in {"read", "unwind"} /\ req[r].thread
    /\ req' = [req EXCEPT ![r].thread = FALSE]
    /\ UNCHANGED <<users, file, faults>>

(* After a read: a failed renewal, the end of the file or the size limit   *)
(* ends the stream; otherwise the chunk is sent.                           *)
Yield(r) ==
    /\ req[r].at = "read" /\ ~req[r].thread
    /\ IF req[r].renewal = "failed" \/ req[r].sent = Chunks
       THEN Goes(r, "unwind")
       ELSE req' = [req EXCEPT ![r].at = "send", ![r].sent = @ + 1]
    /\ UNCHANGED <<users, file, faults>>

(* The client took the chunk: the next read begins, unless the renewal has *)
(* failed meanwhile.                                                       *)
Sent(r) ==
    /\ req[r].at = "send" /\ ~req[r].cut
    /\ IF req[r].renewal = "failed"
       THEN Goes(r, "unwind")
       ELSE req' = [req EXCEPT ![r].at = "read", ![r].thread = TRUE]
    /\ UNCHANGED <<users, file, faults>>

ReadFails(r) ==
    /\ req[r].at = "read" /\ ~req[r].thread /\ Fault
    /\ Goes(r, "unwind")
    /\ UNCHANGED <<users, file>>

(* The client leaves or the server cancels: the task is cancelled at its   *)
(* await. An unstarted generator and one suspended at a yield are closed by*)
(* the response; cleanup already under way is joined.                      *)
Cut(r) ==
    /\ req[r].at \notin {"idle", "check", "over"} /\ Fault
    /\ req' = [req EXCEPT ![r].cut = TRUE,
                          ![r].at = CASE @ = "opening" -> "over"
                                      [] @ = "read" -> "unwind"
                                      [] @ \in {"start", "send"} -> "aclose"
                                      [] OTHER -> @]
    /\ UNCHANGED <<users, file>>

Claimed(r) == req[r].released

(* A response with no cleanup callback.                                    *)
AcloseOnly(r) ==
    /\ req[r].at = "aclose"
    /\ Goes(r, IF req[r].renewal = "none" THEN "over" ELSE "unwind")
    /\ UNCHANGED <<users, file, faults>>

(* aclose: an unstarted generator runs nothing, a suspended one its finally*)
(* block; the cleanup callback then releases what the generator did not.   *)
Aclose(r) ==
    /\ req[r].at = "aclose"
    /\ IF req[r].renewal = "none"
       THEN req' = [req EXCEPT ![r].at = IF Claimed(r) THEN "over" ELSE "exit",
                               ![r].released = TRUE]
       ELSE Goes(r, "unwind")
    /\ UNCHANGED <<users, file, faults>>

(* The generator's finally block: the renewal is cancelled and joined, the *)
(* file is closed, and the release is begun once.                          *)
Unwind(r) ==
    /\ req[r].at = "unwind" /\ ~req[r].thread
    /\ req' = [req EXCEPT ![r].renewal = "stopped", ![r].released = TRUE,
                          ![r].at = IF Claimed(r) THEN "over" ELSE "exit"]
    /\ UNCHANGED <<users, file, faults>>

(* __aexit__ is shielded and joined through every cancellation; the last   *)
(* user's exit deletes the file.                                           *)
Exit(r) ==
    /\ req[r].at = "exit"
    /\ req' = [req EXCEPT ![r].at = "over", ![r].exits = @ + 1]
    /\ users' = users \ {r}
    /\ file' = IF users' = {} THEN "none" ELSE file
    /\ UNCHANGED faults

(* A lease nobody renews runs out: a client may stall the response head    *)
(* for longer than the lease lasts.                                        *)
LeaseExpires ==
    /\ file = "kept"
    /\ \A r \in users : req[r].renewal # "running" /\ ~req[r].thread
    /\ file' = "expired"
    /\ UNCHANGED <<req, users, faults>>

ServerStep(r) ==
    \/ Open(r) \/ Check(r) \/ ReadEnds(r) \/ Yield(r) \/ Aclose(r) \/ Unwind(r) \/ Exit(r)

Next ==
    \/ \E r \in Reqs :
        \/ Enter(r) \/ Open(r) \/ Check(r) \/ StartStream(r) \/ RenewalFails(r) \/ ReadEnds(r)
        \/ Yield(r) \/ Sent(r) \/ ReadFails(r) \/ Cut(r) \/ Aclose(r) \/ Unwind(r) \/ Exit(r)
    \/ LeaseExpires

Spec == Init /\ [][Next]_vars /\ \A r \in Reqs : WF_vars(ServerStep(r))

(* Whatever the client does, a request that has ended has exited the lease *)
(* it opened exactly once, and its renewal task does not outlive it: a     *)
(* leaked task would keep the lease from ever expiring                     *)
(* (_DownloadStreamingResponse, release_materialized, _stop_lease_renewal).*)
ReleasedOnce ==
    \A r \in Reqs :
        /\ req[r].at = "over" => r \notin users /\ req[r].renewal \in {"none", "stopped"}
        /\ req[r].exits <= 1

(* A thread reads the file only while its request still holds the lease.   *)
ReadsAreOwned == \A r \in Reqs : req[r].thread => r \in users /\ file # "none"

(* The conjunction the runs check.                                         *)
DownloadsAreSafe == TypeOK /\ ReleasedOnce /\ ReadsAreOwned

\* The client has left, and the request still holds what it opened.
Waits(r) == req[r].cut /\ req[r].at # "over"
=============================================================================
