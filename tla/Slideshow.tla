------------------------------ MODULE Slideshow ------------------------------
(***************************************************************************)
(* The "photos" and "video" buttons of a photo album (on_slideshow and     *)
(* on_group_slideshow) and the slideshow video behind the second one       *)
(* (deliver_slideshow_video): images and soundtrack are materialized,      *)
(* converted into a temporary file, adopted by the transport and sent,     *)
(* all inside one place of the download queue and one durable job.         *)
(* The queue, the leases and the materializations are those of             *)
(* DownloadQueue, MediaLeases and SharedMedia; here they are what a press  *)
(* holds. An album counts as one send; RetryControl has its units.         *)
(***************************************************************************)
EXTENDS Integers, FiniteSets

CONSTANTS
    Presses,    \* presses of the buttons, each a durable job of its own
    Slots,      \* places of the download queue
    Permits,    \* conversions at a time (conversion_sem)
    MaxFaults   \* bound: crashes, cancelled handlers, failed lease renewals

VARIABLES
    mode,       \* the button of each press
    slots,      \* free places of the queue
    permits,    \* free conversion places
    open,       \* materializations held: <<press, "images" | "audio">>
    disk,       \* files the presses made: <<press, "output" | "derived">>
    stray,      \* an output has lost its press; a derived file has a lease
    row,        \* the durable row of the press's send
    run,        \* the handlers
    sent,       \* copies each press put into the chat
    faults

vars == <<mode, slots, permits, open, disk, stray, row, run, sent, faults>>
held == <<open, disk, stray>>

Outcomes == {"success", "failed", "uncertain"}
\* Where a press holds its place of the queue.
Sourced == {"convert", "converting", "adopt", "send", "record"}
Busy == Sourced \cup {"cached", "resolve", "report"}
Fresh == [pc |-> "new", from |-> "cache", got |-> "none", again |-> FALSE, ui |-> "busy"]

(* Every variable keeps its type; ui is the status message.                *)
TypeOK ==
    /\ mode \in [Presses -> {"photo", "video"}]
    /\ slots \in 0 .. Slots /\ permits \in 0 .. Permits
    /\ open \subseteq Presses \X {"images", "audio"}
    /\ disk \subseteq Presses \X {"output", "derived"} /\ stray \in BOOLEAN
    /\ row \in [Presses -> Outcomes \cup {"none", "open"}]
    /\ run \in [Presses -> [pc : Busy \cup {"new", "done"}, from : {"cache", "files"},
                            got : Outcomes \cup {"none", "error"}, again : BOOLEAN,
                            ui : {"busy", "deleted", "error"}]]
    /\ sent \in [Presses -> 0 .. 2]
    /\ faults \in 0 .. MaxFaults

Init ==
    /\ mode \in [Presses -> {"photo", "video"}]
    /\ slots = Slots /\ permits = Permits
    /\ open = {} /\ disk = {} /\ stray = FALSE
    /\ row = [p \in Presses |-> "none"]
    /\ run = [p \in Presses |-> Fresh]
    /\ sent = [p \in Presses |-> 0]
    /\ faults = 0

At(p, pc) == run[p].pc = pc
Go(p, pc) == run' = [run EXCEPT ![p].pc = pc]
Fault == faults < MaxFaults /\ faults' = faults + 1
Mine(p) == {p} \X {"images", "audio", "output", "derived"}

\* Leaving the pipeline, by the exit stack and the two finally blocks.
Leave(p, got) ==
    /\ open' = open \ Mine(p)
    /\ disk' = disk \ Mine(p)
    /\ run' = [run EXCEPT ![p] = [Fresh EXCEPT !.pc = "report", !.got = got]]

Unwind(p, got) == Leave(p, got) /\ UNCHANGED stray

-----------------------------------------------------------------------------
\* The limiter, an expired link, a full queue or a queue timeout.
Refuse(p) ==
    /\ At(p, "new")
    /\ run' = [run EXCEPT ![p].pc = "done", ![p].ui = "error"]
    /\ UNCHANGED <<mode, slots, permits, held, row, sent, faults>>

Enter(p) ==
    /\ At(p, "new") /\ slots > 0
    /\ slots' = slots - 1
    /\ Go(p, "cached")
    /\ UNCHANGED <<mode, permits, held, row, sent, faults>>

\* _deliver_cached: a known file id is sent before anything is fetched.
Cached(p) ==
    /\ At(p, "cached")
    /\ \/ Go(p, "send")
       \/ run' = [run EXCEPT ![p].pc = "resolve", ![p].from = "files"]
    /\ UNCHANGED <<mode, slots, permits, held, row, sent, faults>>

\* Images and, for a video when the album has one, the soundtrack.
Soundtrack(p) == IF mode[p] = "photo" THEN {{}} ELSE {{}, {<<p, "audio">>}}
OpenSources(p) ==
    /\ At(p, "resolve")
    /\ \E audio \in Soundtrack(p) :
           open' = open \cup {<<p, "images">>} \cup audio
    /\ Go(p, IF mode[p] = "photo" THEN "send" ELSE "convert")
    /\ UNCHANGED <<mode, slots, permits, disk, stray, row, sent, faults>>

\* images_to_video, under conversion_sem.
Convert(p) ==
    /\ At(p, "convert") /\ permits > 0
    /\ permits' = permits - 1
    /\ disk' = disk \cup {<<p, "output">>}
    /\ Go(p, "converting")
    /\ UNCHANGED <<mode, slots, open, stray, row, sent, faults>>

\* A timeout removes the output (cleanup_paths); a converter that fails by its
\* status returns None and leaves what it wrote, if anything.  No janitor takes
\* it either: they take the name slideshow_* for a directory's only.
Converted(p) ==
    /\ At(p, "converting")
    /\ permits' = permits + 1
    /\ \/ Go(p, "adopt") /\ UNCHANGED held
       \/ Unwind(p, "error")
       \/ Leave(p, "error") /\ stray' = TRUE
    /\ UNCHANGED <<mode, slots, row, sent, faults>>

\* adopt_local moves the output under a reservation and a lease of its own;
\* the artifact is validated.
Adopt(p) ==
    /\ At(p, "adopt")
    /\ disk' = (disk \ {<<p, "output">>}) \cup {<<p, "derived">>}
    /\ Go(p, "send")
    /\ UNCHANGED <<mode, slots, permits, open, stray, row, sent, faults>>

\* Resolving, opening, adopting or validating raises a MediaPipelineError.
Raise(p) ==
    /\ run[p].pc \in {"resolve", "adopt"}
    /\ Unwind(p, "error")
    /\ UNCHANGED <<mode, slots, permits, row, sent, faults>>

-----------------------------------------------------------------------------
\* The delivery below: an earlier row decides, or the row is opened and
\* Telegram gets the file; a lost answer leaves a copy behind.
Prior(p) ==
    /\ At(p, "send") /\ row[p] \notin {"none", "failed"}
    /\ Unwind(p, IF row[p] = "success" THEN "success" ELSE "uncertain")
    /\ UNCHANGED <<mode, slots, permits, row, sent, faults>>

\* Fault: only a recorded success keeps a send from being repeated.
SendOverOpen(p, v) ==
    /\ At(p, "send") /\ row[p] # "success"
    /\ row' = [row EXCEPT ![p] = "open"]
    /\ run' = [run EXCEPT ![p].pc = "record", ![p].got = v]
    /\ \/ v # "failed" /\ sent' = [sent EXCEPT ![p] = @ + 1]
       \/ v # "success" /\ UNCHANGED sent
    /\ UNCHANGED <<mode, slots, permits, held, faults>>

Send(p, v) ==
    /\ At(p, "send") /\ row[p] \in {"none", "failed"}
    /\ row' = [row EXCEPT ![p] = "open"]
    /\ run' = [run EXCEPT ![p].pc = "record", ![p].got = v]
    /\ \/ v # "failed" /\ sent' = [sent EXCEPT ![p] = @ + 1]
       \/ v # "success" /\ UNCHANGED sent
    /\ UNCHANGED <<mode, slots, permits, held, faults>>

\* A known failure of the cached id leads to the files, one of the files to
\* one more try; anything else ends the delivery.
Record(p) ==
    /\ At(p, "record")
    /\ row' = [row EXCEPT ![p] = run[p].got]
    /\ IF run[p].got # "failed" \/ run[p].again THEN Unwind(p, run[p].got)
       ELSE /\ run' = [run EXCEPT ![p] =
                  IF @.from = "cache"
                  THEN [Fresh EXCEPT !.pc = "resolve", !.from = "files"]
                  ELSE [Fresh EXCEPT !.pc = "send", !.from = "files", !.again = TRUE]]
            /\ UNCHANGED held
    /\ UNCHANGED <<mode, slots, permits, sent, faults>>

\* The status message is deleted or tells the error, and the place of the
\* queue goes back even when that call fails.
Report(p) ==
    /\ At(p, "report")
    /\ slots' = slots + 1
    /\ \E ui \in {"busy", IF run[p].got = "success" THEN "deleted" ELSE "error"} :
           run' = [run EXCEPT ![p].pc = "done", ![p].ui = ui]
    /\ UNCHANGED <<mode, permits, held, row, sent, faults>>

-----------------------------------------------------------------------------
\* A lease renewal fails: conversion or send are cancelled and joined, and the
\* outcome is uncertain (_with_lease_renewals).
RenewalFails(p) ==
    /\ run[p].pc \in Sourced /\ run[p].from = "files" /\ Fault
    /\ permits' = IF At(p, "converting") THEN permits + 1 ELSE permits
    /\ Unwind(p, "error")
    /\ UNCHANGED <<mode, slots, row, sent>>

\* The handler is cancelled; its job runs again in a later process.
Interrupt(p) ==
    /\ run[p].pc \in Busy /\ Fault
    /\ open' = open \ Mine(p) /\ disk' = disk \ Mine(p)
    /\ permits' = IF At(p, "converting") THEN permits + 1 ELSE permits
    /\ slots' = slots + 1
    /\ run' = [run EXCEPT ![p] = Fresh]
    /\ UNCHANGED <<mode, stray, row, sent>>

\* A crash leaves outputs for good, and leased files to the janitors.
Crash ==
    /\ Fault
    /\ slots' = Slots /\ permits' = Permits /\ open' = {} /\ disk' = {}
    /\ stray' = (stray \/ \E p \in Presses : <<p, "output">> \in disk)
    /\ run' = [p \in Presses |-> IF At(p, "done") THEN run[p] ELSE Fresh]
    /\ UNCHANGED <<mode, row, sent>>

Step(p) ==
    \/ Refuse(p) \/ Enter(p) \/ Cached(p) \/ OpenSources(p)
    \/ Convert(p) \/ Converted(p) \/ Adopt(p) \/ Raise(p)
    \/ Prior(p) \/ Record(p) \/ Report(p)
    \/ \E v \in Outcomes : Send(p, v)

Next ==
    \/ \E p \in Presses : Step(p) \/ RenewalFails(p) \/ Interrupt(p)
    \/ Crash

\* Handlers run on; free places are handed out fairly.
Fairness == \A p \in Presses : WF_vars(Step(p)) /\ SF_vars(Convert(p))

Spec == Init /\ [][Next]_vars /\ Fairness

-----------------------------------------------------------------------------
(* Properties. *)

PlacesAddUp ==
    /\ slots + Cardinality({p \in Presses : run[p].pc \in Busy}) = Slots
    /\ permits + Cardinality({p \in Presses : At(p, "converting")}) = Permits

\* The converter reads files that are held, Telegram one that is leased.
SourcesAreHeld ==
    \A p \in Presses : run[p].from = "files" =>
        /\ run[p].pc \in Sourced => <<p, "images">> \in open
        /\ mode[p] = "video" /\ run[p].pc \in {"send", "record"}
               => <<p, "derived">> \in disk

\* The exception is a video that no janitor takes either: a press leaves it
\* only when its conversion failed by its status or its process died.
NothingIsLeft ==
    /\ \A x \in open \cup disk : run[x[1]].pc \in Sourced
    /\ stray => faults > 0 \/ \E p \in Presses : run[p].got = "error"

OneCopy == \A p \in Presses : sent[p] <= 1

\* The status message disappears only after a recorded success.
DeletedMeansSent ==
    \A p \in Presses : run[p].ui = "deleted" => row[p] = "success" /\ sent[p] = 1

(* Whatever fails, is cancelled or crashes in a press, places of the queue  *)
(* and the converter are neither lost nor doubled, files in use are held,   *)
(* a press that ends without a failed conversion or a crash leaves no file, *)
(* a press sends one copy, and its status message disappears only when that *)
(* copy is in the chat.                                                     *)
SlideshowIsSafe ==
    TypeOK /\ PlacesAddUp /\ SourcesAreHeld /\ NothingIsLeft /\ OneCopy /\ DeletedMeansSent

\* The press has not come to its end; places may be taken.
Waits(p) == ~At(p, "done")
=============================================================================
