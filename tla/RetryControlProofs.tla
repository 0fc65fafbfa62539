-------------------------- MODULE RetryControlProofs --------------------------
(***************************************************************************)
(* The retry button (app/bot/retry.py) for any number of presses, units,   *)
(* tokens, crashes and faults: the theorems about RetryControl.            *)
(*                                                                         *)
(* The argument.  With jobs one handler runs at a time, and the jobs of    *)
(* the request form a chain with one end (ChainFits): a press delivers     *)
(* only at the end of the chain, and a job with anything sent or uncertain *)
(* stays the end of it (SendsFit).  In polling mode the first request      *)
(* publishes one token, the claim on it lets one press through at a time,  *)
(* and its row stays open or closed once anything was sent (PollFits).     *)
(***************************************************************************)
EXTENDS RetryControl, FiniteSetTheorems, TLAPS

\* A handler on its way through the delivery, and after it.
Sending == {"pass", "record", "open", "raised", "settle"}
Working == Sending \cup {"deliver", "failing", "finish", "forget"}
Acked == Working \cup {"ready", "hide"}
Holding == Acked \cup {"claimed", "checked", "saved"}
Before == {"idle", "read", "claimed", "checked", "saved", "ready", "deliver"}

JobType == [state : {"absent", "running", "failed", "completed", "checkpointed"},
            next : Handlers \cup {NoJob},
            item : [Units -> Outcomes \cup {"none", "open"}]]
RunType == [pc : Phases, tok : Tokens \cup {0}, snap : Handlers \cup {NoJob, Gone},
            pass : {"none", "cached", "first", "again"},
            todo : SUBSET Units, unit : SUBSET Units,
            got : [Units -> Outcomes \cup {"none"}],
            error : BOOLEAN, partly : BOOLEAN]

\* The types but for the bound on the copies sent, which is the point.
RetryType ==
    /\ durable \in BOOLEAN
    /\ saved \in [Tokens -> Handlers \cup {NoJob, Gone}]
    /\ shown \in [Tokens -> BOOLEAN] /\ pressable \subseteq Tokens
    /\ active \subseteq Tokens /\ finished \subseteq Tokens
    /\ row \in [Tokens -> {"none", "open", "failed", "closed"}]
    /\ job \in [Handlers -> JobType] /\ run \in [Handlers -> RunType]
    /\ cached \subseteq Units /\ sent \in [Units -> Nat]
    /\ crashes \in 0 .. MaxCrashes /\ faults \in 0 .. MaxFaults

\* A handler's record at its phase: it is fresh until it starts, runs its
\* job, has no receipt before a pass of the delivery, and a press works on a
\* token whose button was shown.
HandlerFits(h) ==
    /\ job[h].state = "absent" => run[h] = Rest
    /\ run[h].pc # "idle" => job[h].state = "running"
    /\ h = 0 => run[h].pc \in {"idle", "deliver", "failing", "hide"} \cup Sending
    /\ h # 0 /\ run[h].pc # "idle" => run[h].tok # 0
    /\ h # 0 /\ run[h].tok # 0 => run[h].tok \in pressable
    /\ h = 0 /\ run[h].tok # 0 => run[h].pc \in {"idle", "hide"}
    /\ h = 0 /\ run[h].tok # 0 /\ run[h].pc = "hide" => run[h].tok \notin pressable
    /\ run[h].pc \in {"pass", "record"} =>
          \A u \in run[h].todo : run[h].got[u] \notin Settled
    /\ run[h].pc = "record" =>
          durable /\ \E u \in Units : run[h].unit = {u} /\ run[h].got[u] \in Outcomes
    /\ run[h].pc \in Before => run[h].got = Untried /\ run[h].pass = "none"
    /\ run[h].pc = "open" /\ run[h].pass # "cached" => run[h].got = Untried

\* One press holds a token; what the process remembers of a token it
\* learned from a press.
ClaimsFit ==
    /\ \A p \in Presses : run[p].pc \in Holding => run[p].tok \in active
    /\ \A p, q \in Presses :
          run[p].pc \in Holding /\ run[q].pc \in Holding /\ run[p].tok = run[q].tok => p = q
    /\ \A p \in Presses : run[p].pc \in Holding \ {"forget", "hide"} =>
                          run[p].tok \notin finished
    /\ active \subseteq pressable /\ finished \subseteq pressable
    /\ \A t \in Tokens : row[t] # "none" => t \in pressable

\* A button that is shown has no press beyond it, and nothing refuses it.
ButtonsFit ==
    \A t \in Tokens : shown[t] =>
        /\ t \notin finished
        /\ ~ durable => row[t] \in {"none", "failed"}
        /\ \A p \in Presses : run[p].tok = t => run[p].pc \notin Acked

\* Polling mode: nothing is a job, and the first request has one token at
\* most, whose row is open while a press delivers.
PollFits ==
    ~ durable =>
        /\ \A h \in Handlers : /\ job[h].item = Untried /\ job[h].next = NoJob
                               /\ job[h].state \in {"absent", "running"}
                               /\ run[h].partly => run[h].pc \in {"idle", "failing", "hide"}
                                                     \cup {"finish", "forget"}
        /\ \A t \in Tokens : saved[t] # Gone \/ t \in pressable \/ shown[t] => run[0].tok = t
        /\ \A p \in Presses :
              /\ run[p].pc \in Working => row[run[p].tok] = "open"
              /\ run[p].pc = "hide" =>
                    row[run[p].tok] = IF run[p].tok \in finished THEN "closed" ELSE "failed"
              /\ run[p].pc = "forget" => run[p].tok \in finished

\* Polling mode, no request raised after it had sent a part: a unit that was
\* sent is settled in the receipt of whoever is delivering, and keeps the
\* token's row from being failed.
PollSends ==
    ~ durable /\ ~ RaisedPartly =>
        \A u \in Units :
            /\ sent[u] <= 1
            /\ sent[u] # 0 =>
                  /\ job[0].state # "absent"
                  /\ run[0].tok # 0 => row[run[0].tok] \in {"open", "closed"}
                  /\ \A h \in Handlers :
                        /\ run[h].pc \notin {"deliver", "failing"}
                        /\ run[h].pc \in Sending => run[h].got[u] \in Settled

\* The handlers that may have sent a unit: done, or with it in their receipt.
Senders(u) ==
    {h \in Handlers : job[h].state # "absent" /\ (run[h].got[u] \in Settled \/ Idle(h))}
PollCounts == ~ durable => \A u \in Units : sent[u] <= Cardinality(Senders(u))

\* The job stands at the request's start or replaced another.
Linked(k) == k = 0 \/ \E j \in Handlers : job[j].next = k

\* With jobs: one handler at a time, and the jobs form one chain.
ChainFits ==
    durable =>
        /\ \A g, h \in Handlers : run[g].pc # "idle" /\ run[h].pc # "idle" => g = h
        /\ \A j \in Handlers : job[j].next # NoJob => Superseded(j)
        /\ \A j, k \in Handlers :
              Linked(j) /\ Linked(k) /\ ~ Superseded(j) /\ ~ Superseded(k) => j = k
        /\ \A t \in Tokens : saved[t] # Gone => saved[t] \in Handlers /\ Linked(saved[t])
        /\ \A p \in Presses :
              run[p].pc \in {"read", "claimed", "checked"} =>
                  run[p].snap \in Handlers /\ Linked(run[p].snap)
        /\ \A h \in Handlers :
              run[h].pc \in Working \cup {"checked", "saved", "ready", "hide"} => Linked(h)
        /\ \A j \in Handlers : Unsafe(job[j]) => Linked(j)

\* The receipt of a unit that may have reached the chat.
Noted(h, u) ==
    /\ job[h].item[u] \notin {"none", "failed"}
    /\ run[h].pc = "record" /\ u \in run[h].unit => run[h].got[u] # "failed"

\* The handler's receipt tells what its job's row of the unit is.
Current(h, u) ==
    \/ run[h].pc = "pass"
    \/ run[h].pc = "open" /\ run[h].pass = "cached"
    \/ run[h].pc = "record" /\ u \notin run[h].unit

\* With jobs: a unit that was sent is in the receipts, and a handler that is
\* about to send one has it in none.
SendsFit ==
    durable =>
        /\ \A u \in Units : sent[u] <= 1 /\ (sent[u] # 0 => \E h \in Handlers : Noted(h, u))
        /\ \A h \in Handlers : \A u \in Units :
              Current(h, u) /\ run[h].got[u] \notin Settled => job[h].item[u] \in {"none", "failed"}

RetryInv ==
    /\ RetryType /\ (\A h \in Handlers : HandlerFits(h)) /\ ClaimsFit /\ ButtonsFit
    /\ PollFits /\ PollSends /\ PollCounts /\ ChainFits /\ SendsFit

-----------------------------------------------------------------------------
(* A step of one handler. *)

\* The step changes the handler's own record, its job when it returns, and
\* what belongs to the token a press holds.
StepFrame(h) ==
    /\ run[h].pc # "idle"
    /\ run' = [run EXCEPT ![h] = run'[h]] /\ run'[h] \in RunType
    /\ run'[h].tok = run[h].tok
    /\ job' = [job EXCEPT ![h] = job'[h]]
    /\ \/ job'[h] = job[h]
       \/ /\ durable /\ run'[h].pc = "idle"
          /\ \E s \in {"failed", "completed"} : job'[h] = [job[h] EXCEPT !.state = s]
    /\ UNCHANGED <<durable, pressable, sent>>
    /\ cached' \subseteq Units /\ crashes' \in 0 .. MaxCrashes /\ faults' \in 0 .. MaxFaults
    /\ saved' \in [Tokens -> Handlers \cup {NoJob, Gone}]
    /\ row' \in [Tokens -> {"none", "open", "failed", "closed"}]
    /\ shown' \in [Tokens -> BOOLEAN] /\ finished' \subseteq Tokens
    /\ \A t \in Tokens :
          t # run[h].tok \/ h = 0 \/ run[h].pc \notin Holding =>
             /\ saved'[t] = saved[t] /\ row'[t] = row[t] /\ shown'[t] = shown[t]
             /\ t \in finished' <=> t \in finished
    /\ \/ active' = active
       \/ /\ h # 0 /\ run[h].pc \in Holding /\ run'[h].pc = "idle"
          /\ active' = active \ {run[h].tok}

\* Where it goes.
PcFits(h) ==
    /\ run'[h].pc \notin {"read", "claimed", "record"}
    /\ run'[h].pc \in Holding => run[h].pc \in Holding
    /\ run'[h].pc = "checked" => /\ run'[h].snap = run[h].snap /\ run[h].pc = "claimed"
                                 /\ durable => Linked(h)
    /\ run'[h].pc \in Working \cup {"saved", "ready", "hide"} =>
          run[h].pc \in Working \cup {"checked", "saved", "ready"}

\* What becomes of the token it holds.
TokenFits(h) ==
    h # 0 /\ run[h].pc \in Holding =>
        LET t == run[h].tok IN
        /\ shown'[t] => /\ t \notin finished' /\ run'[h].pc \notin Acked
                        /\ ~ durable => row'[t] \in {"none", "failed"}
        /\ run'[h].pc \in Holding \ {"forget", "hide"} => t \notin finished'
        /\ durable /\ saved'[t] # Gone => saved'[t] \in Handlers /\ Linked(saved'[t])
        /\ ~ durable =>
              /\ run'[h].pc \in Working => row'[t] = "open"
              /\ run'[h].pc = "hide" =>
                    row'[t] = IF t \in finished' THEN "closed" ELSE "failed"
              /\ run'[h].pc = "forget" => t \in finished'
              /\ ~ RaisedPartly' =>
                    \A u \in Units : sent[u] # 0 => row'[t] \in {"open", "closed"}

\* What becomes of its receipt.
ReceiptFits(h) ==
    /\ ~ durable =>
          /\ run'[h].partly => run'[h].pc \in {"idle", "failing", "hide", "finish", "forget"}
          /\ run[h].partly => run'[h].partly
          /\ \A u \in Units :
                /\ run[h].got[u] \in Settled => run'[h].got[u] \in Settled \/ run'[h].pc = "idle"
                /\ ~ RaisedPartly' /\ sent[u] # 0 =>
                      /\ run'[h].pc \notin {"deliver", "failing"}
                      /\ run'[h].pc \in Sending => run'[h].got[u] \in Settled
    /\ durable =>
          \A u \in Units : Current(h, u)' /\ run'[h].got[u] \notin Settled =>
              job[h].item[u] \in {"none", "failed"}

(* The facts every step starts from.                                         *)
LEMMA InvFacts ==
  ASSUME RetryInv
  PROVE  /\ RetryType /\ (\A h \in Handlers : HandlerFits(h)) /\ ClaimsFit /\ ButtonsFit
         /\ PollFits /\ PollSends /\ PollCounts /\ ChainFits /\ SendsFit
         /\ job \in [Handlers -> JobType] /\ run \in [Handlers -> RunType]
         /\ saved \in [Tokens -> Handlers \cup {NoJob, Gone}]
         /\ sent \in [Units -> Nat]
         /\ row \in [Tokens -> {"none", "open", "failed", "closed"}]
         /\ 0 \in Handlers /\ NoJob \notin Handlers /\ 0 \notin Tokens
         /\ \A p \in Presses : p \in Handlers /\ p # 0
         /\ \A h \in Handlers : h # 0 => h \in Presses
  BY RetryAssumption DEF RetryInv, RetryType, Handlers, NoJob

(* A press that is on its way has a token whose button was shown.            *)
LEMMA PressToken ==
  ASSUME RetryInv, NEW h \in Handlers, h # 0, run[h].pc # "idle"
  PROVE  /\ run[h].tok \in Tokens /\ run[h].tok \in pressable
         /\ ~ durable => run[0].tok = run[h].tok
         /\ run[h].pc \in Holding => run[h].tok \in active
  BY InvFacts DEF HandlerFits, RunType, RetryType, PollFits, ClaimsFit

(* Running jobs are not replaced, and while jobs are only closed the chain   *)
(* stays as it is.                                                           *)
LEMMA ClosedJobs ==
  ASSUME RetryInv, NEW h \in Handlers, run[h].pc # "idle",
         job' = [job EXCEPT ![h] = job'[h]],
         \/ job'[h] = job[h]
         \/ /\ durable
            /\ \E s \in {"failed", "completed"} : job'[h] = [job[h] EXCEPT !.state = s],
         UNCHANGED durable
  PROVE  /\ \A g \in Handlers : /\ job'[g].item = job[g].item /\ job'[g].next = job[g].next
                                /\ job'[g].state = "absent" <=> job[g].state = "absent"
                                /\ Unsafe(job[g])' <=> Unsafe(job[g])
                                /\ durable => (Superseded(g)' <=> Superseded(g))
         /\ job' \in [Handlers -> JobType]
         /\ \A k : Linked(k)' <=> Linked(k)
<1>1. job \in [Handlers -> JobType] /\ HandlerFits(h) /\ ChainFits
  BY InvFacts
<1>2. /\ job' = [job EXCEPT ![h] = job'[h]]
      /\ \/ job'[h] = job[h]
         \/ /\ durable
            /\ \E s \in {"failed", "completed"} : job'[h] = [job[h] EXCEPT !.state = s]
  OBVIOUS
<1>3. job[h].state = "running"
  BY <1>1 DEF HandlerFits
<1>4. /\ job'[h].item = job[h].item /\ job'[h].next = job[h].next
      /\ job'[h].state # "absent" /\ job'[h] \in JobType
  BY <1>1, <1>2, <1>3 DEF JobType
<1>5. \A g \in Handlers : /\ job'[g].item = job[g].item /\ job'[g].next = job[g].next
                          /\ job'[g].state = "absent" <=> job[g].state = "absent"
                          /\ g # h => job'[g] = job[g]
  BY <1>1, <1>2, <1>3, <1>4
<1>6. \A g \in Handlers : Unsafe(job[g])' <=> Unsafe(job[g])
  BY <1>5 DEF Unsafe
<1>7. durable => job[h].next = NoJob
  BY <1>1, <1>3 DEF ChainFits, Superseded
<1>8. ASSUME NEW g \in Handlers, durable PROVE Superseded(g)' <=> Superseded(g)
  <2>1. CASE g = h
    BY <1>4, <1>7, <1>8, <2>1 DEF Superseded
  <2>2. CASE g # h
    BY <1>5, <1>6, <2>2 DEF Superseded
  <2>. QED
    BY <2>1, <2>2
<1>9. \A k : Linked(k)' <=> Linked(k)
  BY <1>5 DEF Linked
<1>10. job' \in [Handlers -> JobType]
  BY <1>1, <1>2, <1>4
<1>. QED
  BY <1>5, <1>6, <1>8, <1>9, <1>10

(* The conjuncts of the invariant, after a step of one handler.              *)
LEMMA StepFlow ==
  ASSUME RetryInv, NEW h \in Handlers, StepFrame(h), PcFits(h), TokenFits(h), HandlerFits(h)'
  PROVE  RetryType' /\ (\A g \in Handlers : HandlerFits(g)') /\ ClaimsFit' /\ ButtonsFit'
<1>0. /\ RetryType /\ (\A g \in Handlers : HandlerFits(g)) /\ ClaimsFit /\ ButtonsFit
      /\ job \in [Handlers -> JobType] /\ run \in [Handlers -> RunType]
      /\ \A p \in Presses : p \in Handlers /\ p # 0
      /\ \A g \in Handlers : g # 0 => g \in Presses
  BY InvFacts
<1>1. /\ run' = [run EXCEPT ![h] = run'[h]] /\ run'[h] \in RunType /\ run'[h].tok = run[h].tok
      /\ UNCHANGED <<durable, pressable, sent>>
      /\ \A g \in Handlers : g # h => run'[g] = run[g]
      /\ run[h].pc # "idle"
  BY <1>0 DEF StepFrame
<1>2. \/ active' = active
      \/ /\ h # 0 /\ run[h].pc \in Holding /\ run'[h].pc = "idle"
         /\ active' = active \ {run[h].tok}
  BY DEF StepFrame
<1>3. RetryType'
  <2>1. job' \in [Handlers -> JobType]
    BY ClosedJobs DEF StepFrame
  <2>2. run' \in [Handlers -> RunType] /\ active' \subseteq Tokens
    BY <1>0, <1>1, <1>2 DEF RetryType
  <2>. QED
    BY <1>0, <1>1, <2>1, <2>2 DEF RetryType, StepFrame
<1>4. \A g \in Handlers : HandlerFits(g)'
  <2>1. ASSUME NEW g \in Handlers, g # h PROVE HandlerFits(g)'
    <3>1. job'[g] = job[g] /\ run'[g] = run[g] /\ pressable' = pressable /\ durable' = durable
      BY <1>0, <1>1, <2>1 DEF StepFrame
    <3>. QED
      BY <1>0, <3>1 DEF HandlerFits
  <2>. QED
    BY <2>1
<1>5. \A t \in Tokens : \/ t = run[h].tok /\ h # 0 /\ run[h].pc \in Holding
                        \/ /\ saved'[t] = saved[t] /\ row'[t] = row[t] /\ shown'[t] = shown[t]
                           /\ t \in finished' <=> t \in finished
  BY DEF StepFrame
<1>6. h # 0 => run[h].tok \in Tokens /\ run[h].tok \in pressable
  BY <1>1, PressToken
<1>7. ClaimsFit'
  <2>1. \A p \in Presses : run'[p].pc \in Holding =>
            run[p].pc \in Holding /\ run'[p].tok = run[p].tok /\ run[p].tok \in active'
    <3>1. ASSUME NEW p \in Presses, run'[p].pc \in Holding
          PROVE  run[p].pc \in Holding /\ run'[p].tok = run[p].tok /\ run[p].tok \in active'
      <4>1. run[p].pc \in Holding /\ run'[p].tok = run[p].tok
        BY <1>0, <1>1, <3>1 DEF PcFits
      <4>2. run[p].tok \in active
        BY <1>0, <4>1 DEF ClaimsFit
      <4>3. CASE active' # active
        <5>1. p # h /\ h \in Presses
          BY <1>0, <1>2, <3>1, <4>3 DEF Holding, Acked, Working, Sending
        <5>2. run[p].tok # run[h].tok
          BY <1>0, <1>2, <4>1, <4>3, <5>1 DEF ClaimsFit
        <5>. QED
          BY <1>2, <4>1, <4>2, <4>3, <5>2
      <4>. QED
        BY <4>1, <4>2, <4>3
    <3>. QED
      BY <3>1
  <2>2. active' \subseteq pressable' /\ finished' \subseteq pressable'
    BY <1>0, <1>1, <1>2, <1>5, <1>6 DEF ClaimsFit, StepFrame
  <2>3. \A t \in Tokens : row'[t] # "none" => t \in pressable'
    BY <1>0, <1>1, <1>5, <1>6 DEF ClaimsFit
  <2>4. ASSUME NEW p \in Presses, run'[p].pc \in Holding \ {"forget", "hide"}
        PROVE  run[p].tok \notin finished'
    <3>1. CASE p = h
      BY <1>0, <2>1, <2>4, <3>1 DEF TokenFits
    <3>2. CASE p # h
      <4>1. run[p].pc \in Holding \ {"forget", "hide"} /\ run[p].tok \notin finished
        BY <1>0, <1>1, <2>4, <3>2 DEF ClaimsFit
      <4>2. PICK t \in Tokens : t = run[p].tok
        BY <1>0, <4>1, PressToken DEF Holding, Acked, Working, Sending
      <4>3. ~ (t = run[h].tok /\ h # 0 /\ run[h].pc \in Holding)
        BY <1>0, <3>2, <4>1, <4>2 DEF ClaimsFit
      <4>. QED
        BY <1>5, <4>1, <4>2, <4>3
    <3>. QED
      BY <3>1, <3>2
  <2>. QED
    BY <1>0, <2>1, <2>2, <2>3, <2>4 DEF ClaimsFit
<1>8. ButtonsFit'
  <2>1. SUFFICES ASSUME NEW t \in Tokens, shown'[t]
                 PROVE  /\ t \notin finished'
                        /\ ~ durable' => row'[t] \in {"none", "failed"}
                        /\ \A p \in Presses : run'[p].tok = t => run'[p].pc \notin Acked
    BY DEF ButtonsFit
  <2>2. CASE t = run[h].tok /\ h # 0 /\ run[h].pc \in Holding
    <3>1. \A p \in Presses : p # h /\ run[p].tok = t => run[p].pc \notin Holding
      BY <1>0, <2>2 DEF ClaimsFit
    <3>2. \A p \in Presses : run'[p].tok = t => run'[p].pc \notin Acked
      BY <1>0, <1>1, <2>1, <2>2, <3>1 DEF TokenFits, Holding
    <3>. QED
      BY <1>1, <2>1, <2>2, <3>2 DEF TokenFits
  <2>3. CASE ~ (t = run[h].tok /\ h # 0 /\ run[h].pc \in Holding)
    <3>1. shown[t] /\ row'[t] = row[t] /\ (t \in finished' <=> t \in finished)
      BY <1>5, <2>1, <2>3
    <3>2. ASSUME NEW p \in Presses, run'[p].tok = t PROVE run'[p].pc \notin Acked
      <4>1. CASE p = h
        <5>1. run[h].pc \notin Holding
          BY <1>0, <1>1, <2>3, <3>2, <4>1
        <5>2. run'[h].pc \notin Holding
          BY <5>1 DEF PcFits
        <5>. QED
          BY <4>1, <5>2 DEF Holding
      <4>2. CASE p # h
        BY <1>0, <1>1, <3>1, <3>2, <4>2 DEF ButtonsFit
      <4>. QED
        BY <4>1, <4>2
    <3>. QED
      BY <1>0, <1>1, <3>1, <3>2 DEF ButtonsFit
  <2>. QED
    BY <2>2, <2>3
<1>. QED
  BY <1>3, <1>4, <1>7, <1>8

(* Polling mode.                                                             *)
LEMMA StepPolls ==
  ASSUME RetryInv, NEW h \in Handlers, StepFrame(h), PcFits(h), TokenFits(h), ReceiptFits(h),
         HandlerFits(h)'
  PROVE  PollFits' /\ PollSends' /\ PollCounts'
<1>0. /\ PollFits /\ PollSends /\ PollCounts /\ ClaimsFit /\ HandlerFits(h)
      /\ job \in [Handlers -> JobType] /\ run \in [Handlers -> RunType]
      /\ sent \in [Units -> Nat]
      /\ 0 \in Handlers
      /\ \A p \in Presses : p \in Handlers /\ p # 0
      /\ \A g \in Handlers : g # 0 => g \in Presses
  BY InvFacts
<1>1. /\ run' = [run EXCEPT ![h] = run'[h]] /\ run'[h] \in RunType /\ run'[h].tok = run[h].tok
      /\ UNCHANGED <<durable, pressable, sent>>
      /\ \A g \in Handlers : g # h => run'[g] = run[g]
      /\ run[h].pc # "idle"
  BY <1>0 DEF StepFrame
<1>2. SUFFICES ASSUME ~ durable PROVE PollFits' /\ PollSends' /\ PollCounts'
  BY <1>1 DEF PollFits, PollSends, PollCounts
<1>3. job' = job
  BY <1>0, <1>2 DEF StepFrame
<1>4. \A t \in Tokens : \/ t = run[h].tok /\ h # 0 /\ run[h].pc \in Holding
                        \/ /\ saved'[t] = saved[t] /\ row'[t] = row[t] /\ shown'[t] = shown[t]
                           /\ t \in finished' <=> t \in finished
  BY DEF StepFrame
<1>5. h # 0 => run[h].tok \in Tokens /\ run[h].tok \in pressable /\ run[0].tok = run[h].tok
  BY <1>1, <1>2, PressToken
<1>6. run'[0].tok = run[0].tok
  BY <1>0, <1>1
<1>7. PollFits'
  <2>1. \A g \in Handlers :
           /\ job'[g].item = Untried /\ job'[g].next = NoJob
           /\ job'[g].state \in {"absent", "running"}
           /\ run'[g].partly => run'[g].pc \in {"idle", "failing", "hide"}
                                              \cup {"finish", "forget"}
    BY <1>0, <1>1, <1>2, <1>3 DEF PollFits, ReceiptFits
  <2>2. \A t \in Tokens : saved'[t] # Gone \/ t \in pressable' \/ shown'[t] => run'[0].tok = t
    BY <1>0, <1>1, <1>2, <1>4, <1>5, <1>6 DEF PollFits
  <2>3. ASSUME NEW p \in Presses
        PROVE  /\ run'[p].pc \in Working => row'[run'[p].tok] = "open"
               /\ run'[p].pc = "hide" => row'[run'[p].tok] =
                     IF run'[p].tok \in finished' THEN "closed" ELSE "failed"
               /\ run'[p].pc = "forget" => run'[p].tok \in finished'
    <3>1. CASE p = h
      <4>1. run'[h].pc \in Working \cup {"hide"} => run[h].pc \in Holding
        BY DEF PcFits, Holding, Acked
      <4>. QED
        BY <1>0, <1>1, <1>2, <3>1, <4>1 DEF TokenFits, Working
    <3>2. CASE p # h
      <4>1. run'[p] = run[p]
        BY <1>0, <1>1, <3>2
      <4>2. SUFFICES ASSUME run[p].pc \in Working \cup {"hide"}
                     PROVE  /\ run[p].pc \in Working => row'[run[p].tok] = "open"
                            /\ run[p].pc = "hide" => row'[run[p].tok] =
                                  IF run[p].tok \in finished' THEN "closed" ELSE "failed"
                            /\ run[p].pc = "forget" => run[p].tok \in finished'
        BY <4>1 DEF Working
      <4>3. run[p].pc \in Holding
        BY <4>2 DEF Holding, Acked
      <4>4. PICK t \in Tokens : t = run[p].tok
        BY <1>0, <4>2, PressToken DEF Working, Sending
      <4>5. ~ (t = run[h].tok /\ h # 0 /\ run[h].pc \in Holding)
        BY <1>0, <3>2, <4>3, <4>4 DEF ClaimsFit
      <4>6. row'[t] = row[t] /\ (t \in finished' <=> t \in finished)
        BY <1>4, <4>5
      <4>. QED
        BY <1>0, <1>2, <4>4, <4>6 DEF PollFits
    <3>. QED
      BY <3>1, <3>2
  <2>. QED
    BY <2>1, <2>2, <2>3 DEF PollFits
<1>8. RaisedPartly => RaisedPartly'
  <2>1. SUFFICES ASSUME NEW g \in Handlers, run[g].partly PROVE run'[g].partly
    BY DEF RaisedPartly
  <2>. QED
    BY <1>0, <1>1, <1>2, <2>1 DEF ReceiptFits
<1>9. PollSends'
  <2>1. SUFFICES ASSUME ~ RaisedPartly', NEW u \in Units
                 PROVE  /\ sent[u] <= 1
                        /\ sent[u] # 0 =>
                              /\ job[0].state # "absent"
                              /\ run[0].tok # 0 => row'[run[0].tok] \in {"open", "closed"}
                              /\ \A g \in Handlers :
                                    /\ run'[g].pc \notin {"deliver", "failing"}
                                    /\ run'[g].pc \in Sending => run'[g].got[u] \in Settled
    BY <1>1, <1>3, <1>6 DEF PollSends
  <2>2. ~ RaisedPartly
    BY <1>8, <2>1
  <2>3. sent[u] <= 1
    BY <1>0, <1>2, <2>2 DEF PollSends
  <2>4. SUFFICES ASSUME sent[u] # 0
                 PROVE  /\ job[0].state # "absent"
                        /\ run[0].tok # 0 => row'[run[0].tok] \in {"open", "closed"}
                        /\ \A g \in Handlers :
                              /\ run'[g].pc \notin {"deliver", "failing"}
                              /\ run'[g].pc \in Sending => run'[g].got[u] \in Settled
    BY <2>3
  <2>5. /\ job[0].state # "absent"
        /\ run[0].tok # 0 => row[run[0].tok] \in {"open", "closed"}
        /\ \A g \in Handlers :
              /\ run[g].pc \notin {"deliver", "failing"}
              /\ run[g].pc \in Sending => run[g].got[u] \in Settled
    BY <1>0, <1>2, <2>2, <2>4 DEF PollSends
  <2>6. run[0].tok # 0 => row'[run[0].tok] \in {"open", "closed"}
    <3>1. SUFFICES ASSUME NEW t \in Tokens, t = run[0].tok
                   PROVE  row'[t] \in {"open", "closed"}
      BY <1>0 DEF RunType
    <3>2. t # 0
      BY InvFacts
    <3>3. CASE t = run[h].tok /\ h # 0 /\ run[h].pc \in Holding
      BY <1>2, <2>1, <2>4, <3>3 DEF TokenFits
    <3>4. CASE ~ (t = run[h].tok /\ h # 0 /\ run[h].pc \in Holding)
      BY <1>4, <2>5, <3>1, <3>2, <3>4
    <3>. QED
      BY <3>3, <3>4
  <2>7. ASSUME NEW g \in Handlers
        PROVE  /\ run'[g].pc \notin {"deliver", "failing"}
               /\ run'[g].pc \in Sending => run'[g].got[u] \in Settled
    BY <1>1, <1>2, <2>1, <2>4, <2>5 DEF ReceiptFits
  <2>. QED
    BY <2>5, <2>6, <2>7
<1>10. PollCounts'
  <2>2. ASSUME NEW u \in Units PROVE sent'[u] <= Cardinality(Senders(u)')
    <3>1. Senders(u) \subseteq Senders(u)'
      <4>1. SUFFICES ASSUME NEW g \in Handlers, job[g].state # "absent",
                            run[g].got[u] \in Settled \/ Idle(g)
                     PROVE  run'[g].got[u] \in Settled \/ Idle(g)'
        BY <1>3 DEF Senders
      <4>. QED
        BY <1>1, <1>2, <4>1 DEF ReceiptFits, Idle, At
    <3>2. IsFiniteSet(Senders(u)')
      <4>1. IsFiniteSet(Handlers)
        BY RetryAssumption, FS_AddElement DEF Handlers
      <4>. QED
        BY <4>1, FS_Subset DEF Senders
    <3>3. sent[u] <= Cardinality(Senders(u))
      BY <1>0, <1>2 DEF PollCounts
    <3>4. /\ Cardinality(Senders(u)) <= Cardinality(Senders(u)')
          /\ Cardinality(Senders(u)) \in Nat /\ Cardinality(Senders(u)') \in Nat
      BY <3>1, <3>2, FS_Subset, FS_CardinalityType
    <3>5. sent'[u] = sent[u]
      BY <1>1
    <3>. QED
      BY <1>0, <3>3, <3>4, <3>5
  <2>. QED
    BY <2>2 DEF PollCounts
<1>. QED
  BY <1>7, <1>9, <1>10

(* Webhook mode with its jobs.                                               *)
LEMMA StepJobs ==
  ASSUME RetryInv, NEW h \in Handlers, StepFrame(h), PcFits(h), TokenFits(h), ReceiptFits(h)
  PROVE  ChainFits' /\ SendsFit'
<1>0. /\ ChainFits /\ SendsFit
      /\ job \in [Handlers -> JobType] /\ run \in [Handlers -> RunType]
      /\ \A p \in Presses : p \in Handlers /\ p # 0
      /\ \A g \in Handlers : g # 0 => g \in Presses
  BY InvFacts
<1>1. /\ run' = [run EXCEPT ![h] = run'[h]] /\ run'[h] \in RunType /\ run'[h].tok = run[h].tok
      /\ UNCHANGED <<durable, sent>>
      /\ \A g \in Handlers : g # h => run'[g] = run[g]
      /\ run[h].pc # "idle"
  BY <1>0 DEF StepFrame
<1>2. SUFFICES ASSUME durable PROVE ChainFits' /\ SendsFit'
  BY <1>1 DEF ChainFits, SendsFit
<1>3. /\ \A g \in Handlers : /\ job'[g].item = job[g].item /\ job'[g].next = job[g].next
                             /\ Unsafe(job[g])' <=> Unsafe(job[g])
                             /\ Superseded(g)' <=> Superseded(g)
      /\ \A k : Linked(k)' <=> Linked(k)
  BY <1>2, ClosedJobs DEF StepFrame
<1>4. \A g \in Handlers : run'[g].pc # "idle" => run[g].pc # "idle"
  BY <1>1
<1>5. ChainFits'
  <2>1. \A f, g \in Handlers : run'[f].pc # "idle" /\ run'[g].pc # "idle" => f = g
    BY <1>0, <1>2, <1>4 DEF ChainFits
  <2>2. \A j \in Handlers : job'[j].next # NoJob => Superseded(j)'
    BY <1>0, <1>2, <1>3 DEF ChainFits
  <2>3. \A j, k \in Handlers :
          Linked(j)' /\ Linked(k)' /\ ~ Superseded(j)' /\ ~ Superseded(k)' => j = k
    BY <1>0, <1>2, <1>3 DEF ChainFits
  <2>4. ASSUME NEW t \in Tokens, saved'[t] # Gone
        PROVE  saved'[t] \in Handlers /\ Linked(saved'[t])
    <3>1. CASE t = run[h].tok /\ h # 0 /\ run[h].pc \in Holding
      BY <1>2, <2>4, <3>1 DEF TokenFits
    <3>2. CASE ~ (t = run[h].tok /\ h # 0 /\ run[h].pc \in Holding)
      <4>1. saved'[t] = saved[t]
        BY <3>2 DEF StepFrame
      <4>. QED
        BY <1>0, <1>2, <2>4, <4>1 DEF ChainFits
    <3>. QED
      BY <3>1, <3>2
  <2>5. ASSUME NEW p \in Presses, run'[p].pc \in {"read", "claimed", "checked"}
        PROVE  run'[p].snap \in Handlers /\ Linked(run'[p].snap)
    <3>1. run'[p].snap = run[p].snap /\ run[p].pc \in {"read", "claimed", "checked"}
      BY <1>0, <1>1, <2>5 DEF PcFits
    <3>. QED
      BY <1>0, <1>2, <3>1 DEF ChainFits
  <2>6. ASSUME NEW g \in Handlers,
               run'[g].pc \in Working \cup {"checked", "saved", "ready", "hide"}
        PROVE  Linked(g)
    <3>1. CASE g = h
      BY <1>0, <1>1, <1>2, <2>6, <3>1 DEF ChainFits, PcFits
    <3>2. CASE g # h
      BY <1>0, <1>1, <1>2, <2>6, <3>2 DEF ChainFits
    <3>. QED
      BY <3>1, <3>2
  <2>7. \A j \in Handlers : Unsafe(job[j])' => Linked(j)'
    BY <1>0, <1>2, <1>3 DEF ChainFits
  <2>8. (\A t \in Tokens : saved[t] # Gone => saved[t] \in Handlers /\ Linked(saved[t]))'
    <3>1. ASSUME NEW t \in Tokens, saved'[t] # Gone PROVE (saved[t] \in Handlers /\ Linked(saved[t]))'
      <4>1. PICK k \in Handlers : k = saved'[t] /\ Linked(k)
        BY <2>4, <3>1
      <4>2. Linked(k)'
        BY <1>3, <4>1
      <4>. QED
        BY <4>1, <4>2 DEF Linked
    <3>. QED
      BY <3>1
  <2>9. (\A p \in Presses : run[p].pc \in {"read", "claimed", "checked"} =>
            run[p].snap \in Handlers /\ Linked(run[p].snap))'
    <3>1. ASSUME NEW p \in Presses, run'[p].pc \in {"read", "claimed", "checked"}
          PROVE  (run[p].snap \in Handlers /\ Linked(run[p].snap))'
      <4>1. PICK k \in Handlers : k = run'[p].snap /\ Linked(k)
        BY <2>5, <3>1
      <4>2. Linked(k)'
        BY <1>3, <4>1
      <4>. QED
        BY <4>1, <4>2 DEF Linked
    <3>. QED
      BY <3>1
  <2>. QED
    BY <1>3, <2>1, <2>2, <2>3, <2>6, <2>7, <2>8, <2>9 DEF ChainFits
<1>6. SendsFit'
  <2>1. \A g \in Handlers : \A u \in Units : Noted(g, u) => Noted(g, u)'
    <3>1. ASSUME NEW g \in Handlers, NEW u \in Units, Noted(g, u) PROVE Noted(g, u)'
      <4>1. CASE g = h
        BY <1>1, <1>3, <3>1, <4>1 DEF Noted, PcFits
      <4>2. CASE g # h
        BY <1>1, <1>3, <3>1, <4>2 DEF Noted
      <4>. QED
        BY <4>1, <4>2
    <3>. QED
      BY <3>1
  <2>2. ASSUME NEW g \in Handlers, NEW u \in Units, Current(g, u)', run'[g].got[u] \notin Settled
        PROVE  job'[g].item[u] \in {"none", "failed"}
    <3>1. CASE g = h
      BY <1>2, <1>3, <2>2, <3>1 DEF ReceiptFits
    <3>2. CASE g # h
      <4>1. Current(g, u) /\ run[g].got[u] \notin Settled
        BY <1>1, <2>2, <3>2 DEF Current
      <4>. QED
        BY <1>0, <1>2, <1>3, <4>1 DEF SendsFit
    <3>. QED
      BY <3>1, <3>2
  <2>. QED
    BY <1>0, <1>1, <1>2, <2>1, <2>2 DEF SendsFit
<1>. QED
  BY <1>5, <1>6

(* Together.                                                                 *)
LEMMA StepKeeps ==
  ASSUME RetryInv, NEW h \in Handlers, StepFrame(h), PcFits(h), TokenFits(h), ReceiptFits(h),
         HandlerFits(h)'
  PROVE  RetryInv'
BY StepFlow, StepPolls, StepJobs DEF RetryInv

-----------------------------------------------------------------------------
(* The handlers' steps. *)

(* A handler returns or raises: its job is closed and its claim let go.      *)
LEMMA EndKeeps ==
  ASSUME RetryInv, NEW h \in Handlers, NEW e, run[h].pc # "idle",
         run' = [run EXCEPT ![h] = Over(h)],
         job' = [job EXCEPT ![h] = Closed(@, e)],
         \/ active' = active
         \/ h # 0 /\ run[h].pc \in Holding /\ active' = active \ {run[h].tok},
         UNCHANGED <<durable, saved, finished, row, pressable, sent>>,
         shown' \in [Tokens -> BOOLEAN],
         \A t \in Tokens : shown'[t] => shown[t] \/ (run[h].pc = "hide" /\ t \notin finished),
         \A t \in Tokens : t # run[h].tok \/ h = 0 \/ run[h].pc \notin Holding => shown'[t] = shown[t],
         cached' \subseteq Units, crashes' \in 0 .. MaxCrashes, faults' \in 0 .. MaxFaults
  PROVE  RetryInv'
<1>0. /\ RetryType /\ HandlerFits(h) /\ ButtonsFit /\ PollFits /\ PollSends /\ ChainFits
      /\ job \in [Handlers -> JobType] /\ run \in [Handlers -> RunType]
      /\ saved \in [Tokens -> Handlers \cup {NoJob, Gone}]
      /\ row \in [Tokens -> {"none", "open", "failed", "closed"}]
      /\ 0 \notin Tokens /\ 0 \in Handlers /\ (h # 0 => h \in Presses)
  BY InvFacts
<1>1. /\ run'[h] = Over(h) /\ Over(h) \in RunType
      /\ run'[h].pc = "idle" /\ run'[h].tok = run[h].tok /\ run'[h].partly = run[h].partly
      /\ run'[h].got = Untried /\ run'[h].pass = "none"
      /\ \A g \in Handlers : g # h => run'[g] = run[g]
  BY <1>0, RetryAssumption DEF Over, Rest, RunType, Phases, Handlers, Gone, NoJob, Untried
<1>2. /\ job' = [job EXCEPT ![h] = job'[h]]
      /\ \/ job'[h] = job[h]
         \/ durable /\ \E s \in {"failed", "completed"} : job'[h] = [job[h] EXCEPT !.state = s]
  BY <1>0 DEF Closed
<1>3. StepFrame(h)
  BY <1>0, <1>1, <1>2 DEF StepFrame, RetryType
<1>4. PcFits(h)
  BY <1>1 DEF PcFits, Holding, Acked, Working, Sending
<1>5. job'[h].state # "absent"
  BY <1>0, <1>2 DEF HandlerFits, JobType
<1>6. HandlerFits(h)'
  BY <1>0, <1>1, <1>5 DEF HandlerFits, Before
<1>7. RaisedPartly' <=> RaisedPartly
  <2>1. \A g \in Handlers : run'[g].partly = run[g].partly
    BY <1>1
  <2>. QED
    BY <2>1 DEF RaisedPartly
<1>8. ReceiptFits(h)
  BY <1>0, <1>1 DEF ReceiptFits, Current, Sending
<1>9. TokenFits(h)
  <2>1. SUFFICES ASSUME h # 0, run[h].pc \in Holding, NEW t \in Tokens, t = run[h].tok
                 PROVE  /\ shown'[t] => /\ t \notin finished' /\ run'[h].pc \notin Acked
                                        /\ ~ durable => row'[t] \in {"none", "failed"}
                        /\ durable /\ saved'[t] # Gone =>
                              saved'[t] \in Handlers /\ Linked(saved'[t])
                        /\ ~ durable /\ ~ RaisedPartly' =>
                              \A u \in Units : sent[u] # 0 => row'[t] \in {"open", "closed"}
    BY <1>1, PressToken DEF TokenFits, Holding, Acked, Working, Sending
  <2>2. shown'[t] => /\ t \notin finished' /\ run'[h].pc \notin Acked
                     /\ ~ durable => row'[t] \in {"none", "failed"}
    <3>1. CASE shown[t]
      BY <1>0, <1>1, <2>1, <3>1 DEF ButtonsFit, Acked, Working, Sending
    <3>2. CASE run[h].pc = "hide" /\ t \notin finished
      BY <1>0, <1>1, <2>1, <3>2 DEF PollFits, Acked, Working, Sending
    <3>. QED
      BY <3>1, <3>2
  <2>3. durable /\ saved'[t] # Gone => saved'[t] \in Handlers /\ Linked(saved'[t])
    BY <1>0, <2>1 DEF ChainFits
  <2>4. ASSUME ~ durable, ~ RaisedPartly', NEW u \in Units, sent[u] # 0
        PROVE  row'[t] \in {"open", "closed"}
    <3>1. run[0].tok = t /\ t # 0
      BY <1>0, <2>1, <2>4, PressToken
    <3>. QED
      BY <1>0, <1>7, <2>4, <3>1 DEF PollSends
  <2>. QED
    BY <2>2, <2>3, <2>4
<1>. QED
  BY <1>3, <1>4, <1>6, <1>8, <1>9, StepKeeps

(* A handler goes on with its delivery, and nothing else changes.            *)
LEMMA RunKeeps ==
  ASSUME RetryInv, NEW h \in Handlers, run[h].pc # "idle",
         run' = [run EXCEPT ![h] = run'[h]], run'[h] \in RunType, run'[h].tok = run[h].tok,
         UNCHANGED <<durable, saved, memory, store, chat, cached, limits>>,
         run'[h].pc \notin {"idle", "forget"}, run'[h].pc = "hide" => h = 0,
         run[h].pc \notin {"forget", "hide"},
         run'[h].pc \in Acked => run[h].pc \in Acked,
         run'[h].pc \in Working => run[h].pc \in Working,
         PcFits(h), ReceiptFits(h), HandlerFits(h)'
  PROVE  RetryInv'
<1>0. /\ RetryType /\ ClaimsFit /\ ButtonsFit /\ PollFits /\ PollSends /\ ChainFits
      /\ job \in [Handlers -> JobType] /\ run \in [Handlers -> RunType]
      /\ 0 \notin Tokens /\ \A g \in Handlers : g # 0 => g \in Presses
  BY InvFacts
<1>1. UNCHANGED <<durable, saved, active, finished, row, job, shown, pressable, sent, cached,
                  crashes, faults>>
  BY DEF memory, store, chat, limits
<1>2. StepFrame(h)
  BY <1>0, <1>1 DEF StepFrame, RetryType
<1>3. ~ durable => (RaisedPartly => RaisedPartly')
  <2>1. SUFFICES ASSUME ~ durable, NEW g \in Handlers, run[g].partly PROVE run'[g].partly
    BY DEF RaisedPartly
  <2>. QED
    BY <1>0, <2>1 DEF ReceiptFits
<1>4. TokenFits(h)
  <2>1. SUFFICES ASSUME h # 0, run[h].pc \in Holding, NEW t \in Tokens, t = run[h].tok
                 PROVE  /\ shown'[t] => /\ t \notin finished' /\ run'[h].pc \notin Acked
                                        /\ ~ durable => row'[t] \in {"none", "failed"}
                        /\ run'[h].pc \in Holding \ {"forget", "hide"} => t \notin finished'
                        /\ durable /\ saved'[t] # Gone =>
                              saved'[t] \in Handlers /\ Linked(saved'[t])
                        /\ ~ durable =>
                              /\ run'[h].pc \in Working => row'[t] = "open"
                              /\ ~ RaisedPartly' =>
                                   \A u \in Units : sent[u] # 0 => row'[t] \in {"open", "closed"}
    BY PressToken DEF TokenFits
  <2>2. shown'[t] => /\ t \notin finished' /\ run'[h].pc \notin Acked
                     /\ ~ durable => row'[t] \in {"none", "failed"}
    BY <1>0, <1>1, <2>1 DEF ButtonsFit
  <2>6. t \notin finished'
    BY <1>0, <1>1, <2>1 DEF ClaimsFit
  <2>3. durable /\ saved'[t] # Gone => saved'[t] \in Handlers /\ Linked(saved'[t])
    BY <1>0, <1>1, <2>1 DEF ChainFits
  <2>4. ~ durable => (run'[h].pc \in Working => row'[t] = "open")
    BY <1>0, <1>1, <2>1 DEF PollFits
  <2>5. ASSUME ~ durable, ~ RaisedPartly', NEW u \in Units, sent[u] # 0
        PROVE  row'[t] \in {"open", "closed"}
    <3>1. run[0].tok = t /\ t # 0
      BY <1>0, <2>1, <2>5, PressToken
    <3>. QED
      BY <1>0, <1>1, <1>3, <2>5, <3>1 DEF PollSends
  <2>. QED
    BY <2>2, <2>3, <2>4, <2>5, <2>6
<1>. QED
  BY <1>2, <1>4, StepKeeps

(* The ways a handler leaves early (on_retry's refusals, its failed replies,  *)
(* a TikTok album offered as a choice, any other exception).                 *)
LEMMA LeavesKeep ==
  ASSUME RetryInv, NEW h \in Handlers,
         \/ h = 0 /\ OfferFirst
         \/ Breaks(h) \/ ForgetFails(h)
         \/ h \in Presses /\ (Refuse(h) \/ AcknowledgeFails(h))
  PROVE  RetryInv'
<1>0. /\ RetryType /\ HandlerFits(h) /\ run \in [Handlers -> RunType]
      /\ \A p \in Presses : p # 0
  BY InvFacts
<1>1. PICK e \in BOOLEAN :
         /\ End(h, e) /\ run[h].pc \in Holding
         /\ UNCHANGED <<durable, saved, finished, row, pressable, sent, cached, crashes>>
         /\ faults' = faults \/ Fault
         /\ \/ shown' = shown
            \/ h # 0 /\ shown' = [shown EXCEPT ![run[h].tok] = FALSE]
  BY <1>0 DEF OfferFirst, Breaks, ForgetFails, Refuse, AcknowledgeFails, At, chat, limits,
         Holding, Acked, Working, Sending
<1>2. run[h].pc # "idle"
  BY <1>1 DEF Holding, Acked, Working, Sending
<1>3. faults' \in 0 .. MaxFaults
  BY <1>0, <1>1, RetryAssumption DEF RetryType, Fault
<1>4. /\ shown' \in [Tokens -> BOOLEAN] /\ \A t \in Tokens : shown'[t] => shown[t]
      /\ \A t \in Tokens : t # run[h].tok \/ h = 0 => shown'[t] = shown[t]
  BY <1>0, <1>1 DEF RetryType
<1>. QED
  BY <1>0, <1>1, <1>2, <1>3, <1>4, EndKeeps DEF End, RetryType

(* A press takes its token, which nobody holds, or finds it finished or      *)
(* taken.                                                                    *)
LEMMA ClaimKeeps ==
  ASSUME RetryInv, NEW p \in Presses, Claim(p)
  PROVE  RetryInv'
<1>0. /\ RetryType /\ (\A h \in Handlers : HandlerFits(h)) /\ ClaimsFit /\ ButtonsFit
      /\ PollFits /\ PollSends /\ PollCounts /\ ChainFits /\ SendsFit
      /\ job \in [Handlers -> JobType] /\ run \in [Handlers -> RunType]
      /\ p \in Handlers /\ p # 0 /\ 0 \in Handlers
      /\ \A q \in Presses : q \in Handlers
  BY InvFacts
<1>1. /\ run[p].pc = "read" /\ run[p].tok \in Tokens /\ run[p].tok \in pressable
      /\ UNCHANGED <<durable, saved, finished, row, shown, pressable, sent, cached, crashes, faults>>
  BY <1>0, PressToken DEF Claim, At, chat, limits
<1>2. CASE run[p].tok \in finished \cup active
  <2>1. /\ run' = [run EXCEPT ![p] = Over(p)] /\ job' = [job EXCEPT ![p] = Closed(@, FALSE)]
        /\ active' = active
    BY <1>2 DEF Claim
  <2>. QED
    BY <1>0, <1>1, <2>1, EndKeeps DEF RetryType
<1>3. CASE run[p].tok \notin finished \cup active
  <2>1. /\ active' = active \cup {run[p].tok} /\ job' = job
        /\ run' = [run EXCEPT ![p].pc = "claimed"]
    BY <1>3 DEF Claim, Go
  <2>2. PICK t \in Tokens : t = run[p].tok /\ t \in pressable /\ t \notin active \cup finished
    BY <1>1, <1>3
  <2>3. /\ run'[p] = [run[p] EXCEPT !.pc = "claimed"] /\ run'[p] \in RunType
        /\ run'[p].pc = "claimed" /\ run'[p].tok = t /\ run'[p].snap = run[p].snap
        /\ run'[p].got = run[p].got /\ run'[p].partly = run[p].partly
        /\ \A g \in Handlers : g # p => run'[g] = run[g]
        /\ run'[0] = run[0] /\ run' \in [Handlers -> RunType]
    BY <1>0, <2>1, <2>2 DEF RunType, Phases
  <2>4. RetryType'
    BY <1>0, <1>1, <2>1, <2>2, <2>3 DEF RetryType
  <2>5. \A h \in Handlers : HandlerFits(h)'
    <3>1. HandlerFits(p)'
      BY <1>0, <1>1, <2>1, <2>2, <2>3 DEF HandlerFits, Rest, Before
    <3>2. ASSUME NEW h \in Handlers, h # p PROVE HandlerFits(h)'
      BY <1>0, <1>1, <2>1, <2>3, <3>2 DEF HandlerFits
    <3>. QED
      BY <3>1, <3>2
  <2>6. ClaimsFit'
    <3>1. \A q \in Presses : q # p /\ run[q].pc \in Holding => run[q].tok # t
      BY <1>0, <2>2 DEF ClaimsFit
    <3>2. \A q \in Presses : run'[q].pc \in Holding => q = p \/ (run[q].pc \in Holding /\ run'[q] = run[q])
      BY <1>0, <2>3
    <3>. QED
      BY <1>0, <1>1, <2>1, <2>2, <2>3, <3>1, <3>2 DEF ClaimsFit
  <2>7. ButtonsFit'
    <3>1. \A q \in Presses : run'[q].tok = run[q].tok /\ (run'[q].pc \in Acked => run[q].pc \in Acked)
      BY <1>0, <1>1, <2>2, <2>3 DEF Acked, Working, Sending
    <3>. QED
      BY <1>0, <1>1, <3>1 DEF ButtonsFit
  <2>8. RaisedPartly' <=> RaisedPartly
    BY <1>0, <2>3 DEF RaisedPartly
  <2>9. PollFits'
    BY <1>0, <1>1, <2>1, <2>3 DEF PollFits, Working, Sending
  <2>10. PollSends'
    <3>1. \A h \in Handlers : run'[h].pc \in Sending \cup {"deliver", "failing"} => run'[h] = run[h]
      BY <1>0, <2>3 DEF Sending
    <3>. QED
      BY <1>0, <1>1, <2>1, <2>3, <2>8, <3>1 DEF PollSends
  <2>11. PollCounts'
    <3>1. \A u \in Units : Senders(u)' = Senders(u)
      BY <1>0, <1>1, <2>1, <2>3 DEF Senders, Idle, At
    <3>. QED
      BY <1>0, <1>1, <3>1 DEF PollCounts
  <2>12. ChainFits'
    <3>1. /\ \A k : Linked(k)' <=> Linked(k)
          /\ \A j : Superseded(j)' <=> Superseded(j)
          /\ \A j : Unsafe(job[j])' <=> Unsafe(job[j])
      BY <2>1 DEF Linked, Superseded, Unsafe
    <3>2. \A h \in Handlers : run'[h].pc # "idle" => run[h].pc # "idle"
      BY <1>0, <1>1, <2>3
    <3>3. \A h \in Handlers : run'[h].snap = run[h].snap
      BY <2>3
    <3>4. \A h \in Handlers : run'[h].pc \in {"read", "claimed", "checked"} =>
             run[h].pc \in {"read", "claimed", "checked"}
      BY <1>0, <1>1, <2>3
    <3>5. \A h \in Handlers : run'[h].pc \in Working \cup {"checked", "saved", "ready", "hide"} =>
             run[h].pc \in Working \cup {"checked", "saved", "ready", "hide"}
      BY <1>0, <1>1, <2>3 DEF Working, Sending
    <3>. QED
      BY <1>0, <1>1, <2>1, <3>1, <3>2, <3>3, <3>4, <3>5 DEF ChainFits
  <2>13. SendsFit'
    <3>1. \A h \in Handlers, u \in Units : (Noted(h, u) => Noted(h, u)') /\ (Current(h, u)' => Current(h, u))
      BY <1>0, <1>1, <2>1, <2>3 DEF Noted, Current
    <3>2. \A h \in Handlers : run'[h].got = run[h].got
      BY <2>3
    <3>. QED
      BY <1>0, <1>1, <2>1, <3>1, <3>2 DEF SendsFit
  <2>. QED
    BY <2>4, <2>5, <2>6, <2>7, <2>9, <2>10, <2>11, <2>12, <2>13 DEF RetryInv
<1>. QED
  BY <1>2, <1>3

(* supersede_failed_job stays on the request's chain.                        *)
LEMMA WalkLinked ==
  ASSUME RetryInv, durable, NEW j \in Handlers, Linked(j), NEW k \in Walk(j)
  PROVE  k \in Handlers /\ Linked(k)
<1>. DEFINE S == {i \in Handlers : Linked(i)}
<1>1. \A i \in S : Superseded(i) => job[i].next \in S
  <2>1. SUFFICES ASSUME NEW i \in Handlers, Superseded(i)
                 PROVE  job[i].next \in Handlers /\ Linked(job[i].next)
    OBVIOUS
  <2>2. job[i].next \in Handlers
    BY <2>1, InvFacts DEF Superseded, JobType
  <2>. QED
    BY <2>2 DEF Linked
<1>2. S \in SUBSET Handlers /\ j \in S
  OBVIOUS
<1>3. k \in S
  BY <1>1, <1>2 DEF Walk
<1>. QED
  BY <1>3

(* A failed attempt is replaced: it was the end of the chain, and the press  *)
(* is now.                                                                   *)
LEMMA ReplaceKeeps ==
  ASSUME RetryInv, NEW p \in Presses, run[p].pc = "claimed", durable,
         NEW j \in Handlers, j # p, Linked(j), Replaceable(j),
         job' = [job EXCEPT ![j].state = "completed", ![j].next = p],
         run' = [run EXCEPT ![p].pc = "checked"],
         UNCHANGED <<durable, saved, active, finished, row, shown, pressable, sent, cached,
                     crashes, faults>>
  PROVE  RetryInv'
<1>0. /\ RetryType /\ (\A h \in Handlers : HandlerFits(h)) /\ ClaimsFit /\ ButtonsFit
      /\ ChainFits /\ SendsFit
      /\ job \in [Handlers -> JobType] /\ run \in [Handlers -> RunType]
      /\ p \in Handlers /\ p # 0 /\ 0 \in Handlers
      /\ NoJob \notin Handlers
      /\ \A q \in Presses : q \in Handlers
  BY InvFacts
<1>1. /\ run'[p] = [run[p] EXCEPT !.pc = "checked"] /\ run'[p] \in RunType
      /\ run'[p].pc = "checked"
      /\ \A g \in Handlers : g # p => run'[g] = run[g]
      /\ \A g \in Handlers : /\ run'[g].tok = run[g].tok /\ run'[g].snap = run[g].snap
                             /\ run'[g].got = run[g].got
      /\ run' \in [Handlers -> RunType]
  BY <1>0 DEF RunType, Phases
<1>2. /\ job'[j] = [job[j] EXCEPT !.state = "completed", !.next = p]
      /\ job'[j].state = "completed" /\ job'[j].next = p /\ job'[j] \in JobType
      /\ \A g \in Handlers : g # j => job'[g] = job[g]
      /\ \A g \in Handlers : job'[g].item = job[g].item
      /\ job' \in [Handlers -> JobType]
  BY <1>0 DEF JobType
<1>3. /\ job[j].state \in {"failed", "checkpointed"} /\ ~ Unsafe(job[j])
      /\ ~ Superseded(j) /\ job[j].next = NoJob /\ run[j].pc = "idle"
  BY <1>0 DEF Replaceable, Superseded, ChainFits, HandlerFits
<1>4. RetryType'
  BY <1>0, <1>1, <1>2 DEF RetryType
<1>5. \A h \in Handlers : HandlerFits(h)'
  <2>1. HandlerFits(p)'
    BY <1>0, <1>1, <1>2 DEF HandlerFits, Rest, Before
  <2>2. HandlerFits(j)'
    BY <1>0, <1>1, <1>2, <1>3 DEF HandlerFits
  <2>3. ASSUME NEW h \in Handlers, h # p, h # j PROVE HandlerFits(h)'
    BY <1>0, <1>1, <1>2, <2>3 DEF HandlerFits
  <2>. QED
    BY <2>1, <2>2, <2>3
<1>6. \A h \in Handlers : /\ run'[h].pc \in Holding => run[h].pc \in Holding
                          /\ run'[h].pc \in Acked => run[h].pc \in Acked
                          /\ run'[h].pc # "idle" => run[h].pc # "idle"
  BY <1>0, <1>1 DEF Holding, Acked, Working, Sending
<1>7. ClaimsFit' /\ ButtonsFit'
  <2>1. ClaimsFit'
    BY <1>0, <1>1, <1>6 DEF ClaimsFit
  <2>2. ButtonsFit'
    BY <1>0, <1>1, <1>6 DEF ButtonsFit
  <2>. QED
    BY <2>1, <2>2
<1>8. PollFits' /\ PollSends' /\ PollCounts'
  BY DEF PollFits, PollSends, PollCounts
<1>9. /\ \A k \in Handlers : Unsafe(job[k])' <=> Unsafe(job[k])
      /\ \A k \in Handlers : Superseded(k)' <=> Superseded(k) \/ k = j
      /\ \A k \in Handlers : Linked(k)' <=> Linked(k) \/ k = p
  <2>1. \A k \in Handlers : Unsafe(job[k])' <=> Unsafe(job[k])
    BY <1>2 DEF Unsafe
  <2>2. \A k \in Handlers : Superseded(k)' <=> Superseded(k) \/ k = j
    BY <1>0, <1>2, <1>3, <2>1 DEF Superseded
  <2>3. \A k \in Handlers : Linked(k)' <=> Linked(k) \/ k = p
    BY <1>0, <1>2, <1>3 DEF Linked
  <2>. QED
    BY <2>1, <2>2, <2>3
<1>10. ChainFits'
  <2>1. \A g, h \in Handlers : run'[g].pc # "idle" /\ run'[h].pc # "idle" => g = h
    BY <1>0, <1>6 DEF ChainFits
  <2>2. \A k \in Handlers : job'[k].next # NoJob => Superseded(k)'
    BY <1>0, <1>2, <1>9 DEF ChainFits
  <2>3. \A k, m \in Handlers :
          Linked(k)' /\ Linked(m)' /\ ~ Superseded(k)' /\ ~ Superseded(m)' => k = m
    <3>1. \A k \in Handlers : Linked(k) /\ ~ Superseded(k) => k = j
      BY <1>0, <1>3 DEF ChainFits
    <3>. QED
      BY <1>9, <3>1
  <2>4. \A k \in Handlers : Linked(k) => Linked(k)'
    BY <1>9
  <2>5. (\A t \in Tokens : saved[t] # Gone => saved[t] \in Handlers /\ Linked(saved[t]))'
    <3>1. ASSUME NEW t \in Tokens, saved[t] # Gone
          PROVE  saved[t] \in Handlers /\ \E k \in Handlers : k = saved[t] /\ Linked(k)'
      BY <1>0, <2>4, <3>1 DEF ChainFits
    <3>. QED
      BY <3>1 DEF Linked
  <2>6. (\A q \in Presses : run[q].pc \in {"read", "claimed", "checked"} =>
            run[q].snap \in Handlers /\ Linked(run[q].snap))'
    <3>1. ASSUME NEW q \in Presses, run'[q].pc \in {"read", "claimed", "checked"}
          PROVE  run'[q].snap \in Handlers /\ \E k \in Handlers : k = run'[q].snap /\ Linked(k)'
      <4>1. run[q].pc \in {"read", "claimed", "checked"} /\ run'[q].snap = run[q].snap
        BY <1>0, <1>1, <3>1
      <4>. QED
        BY <1>0, <2>4, <4>1 DEF ChainFits
    <3>. QED
      BY <3>1 DEF Linked
  <2>7. ASSUME NEW h \in Handlers,
               run'[h].pc \in Working \cup {"checked", "saved", "ready", "hide"}
        PROVE  Linked(h)'
    <3>1. h = p \/ Linked(h)
      BY <1>0, <1>1, <2>7 DEF ChainFits
    <3>. QED
      BY <1>9, <3>1
  <2>8. \A k \in Handlers : Unsafe(job[k])' => Linked(k)'
    BY <1>0, <1>9 DEF ChainFits
  <2>. QED
    BY <2>1, <2>2, <2>3, <2>5, <2>6, <2>7, <2>8 DEF ChainFits
<1>11. SendsFit'
  <2>1. \A h \in Handlers, u \in Units : (Noted(h, u) => Noted(h, u)') /\ (Current(h, u)' => Current(h, u))
    BY <1>0, <1>1, <1>2 DEF Noted, Current
  <2>. QED
    BY <1>0, <1>1, <1>2, <2>1 DEF SendsFit
<1>. QED
  BY <1>4, <1>5, <1>7, <1>8, <1>10, <1>11 DEF RetryInv

(* A press goes on to its own job (prepare_current_retry) or is let go.      *)
LEMMA PrepareKeeps ==
  ASSUME RetryInv, NEW p \in Presses, Prepare(p) \/ CheckToken(p)
  PROVE  RetryInv'
<1>0. /\ RetryType /\ HandlerFits(p) /\ ChainFits /\ PollFits /\ PollSends /\ PollCounts
      /\ run \in [Handlers -> RunType] /\ p \in Handlers /\ p # 0
  BY InvFacts
<1>1. /\ run[p].pc = "claimed" /\ run[p].pc \in Holding
      /\ UNCHANGED <<durable, saved, finished, row, shown, pressable, sent, cached, crashes, faults>>
  BY DEF Prepare, CheckToken, At, chat, limits, Holding
<1>2. durable => run[p].snap \in Handlers /\ Linked(run[p].snap)
  BY <1>0, <1>1 DEF ChainFits
<1>3. CASE End(p, FALSE)
  BY <1>0, <1>1, <1>3, EndKeeps DEF End, RetryType
<1>4. CASE /\ Go(p, "checked") /\ UNCHANGED <<job, active>> /\ (durable => Linked(p))
  <2>1. /\ run'[p] = [run[p] EXCEPT !.pc = "checked"] /\ run'[p] \in RunType
        /\ run' = [run EXCEPT ![p] = run'[p]]
        /\ run'[p].pc = "checked" /\ run'[p].tok = run[p].tok /\ run'[p].snap = run[p].snap
        /\ run'[p].got = run[p].got /\ run'[p].partly = run[p].partly
    BY <1>0, <1>4 DEF Go, RunType, Phases
  <2>2. HandlerFits(p)'
    BY <1>0, <1>1, <1>4, <2>1 DEF HandlerFits, Rest, Before
  <2>3. PcFits(p)
    BY <1>1, <1>4, <2>1 DEF PcFits, Working, Sending
  <2>4. ReceiptFits(p)
    BY <1>0, <1>1, <2>1 DEF ReceiptFits, Current, Sending, PollFits
  <2>. QED
    BY <1>0, <1>1, <1>4, <2>1, <2>2, <2>3, <2>4, RunKeeps
    DEF memory, store, chat, limits, Acked, Working, Sending
<1>5. CASE /\ durable /\ Go(p, "checked") /\ UNCHANGED active
           /\ p \notin Walk(run[p].snap)
           /\ \E j \in Walk(run[p].snap) :
                 Replaceable(j) /\ job' = [job EXCEPT ![j].state = "completed", ![j].next = p]
  <2>1. PICK j \in Walk(run[p].snap) :
           Replaceable(j) /\ job' = [job EXCEPT ![j].state = "completed", ![j].next = p]
    BY <1>5
  <2>2. j \in Handlers /\ Linked(j) /\ j # p
    BY <1>2, <1>5, WalkLinked
  <2>. QED
    BY <1>1, <1>5, <2>1, <2>2, ReplaceKeeps DEF Go
<1>. QED
  <2>1. CASE CheckToken(p)
    BY <1>3, <1>4, <2>1 DEF CheckToken
  <2>2. CASE Prepare(p)
    <3>1. p \in Walk(run[p].snap) => Linked(p)
      BY <1>2, <2>2, WalkLinked DEF Prepare
    <3>. QED
      BY <1>3, <1>4, <1>5, <2>2, <3>1 DEF Prepare
  <2>. QED
    BY <2>1, <2>2

(* The state of one request that only its handlers have touched.             *)
LEMMA SentNothing ==
  ASSUME RetryInv, ~ durable, ~ RaisedPartly, NEW h \in Handlers, NEW u \in Units,
         \/ run[h].pc \in {"deliver", "failing"}
         \/ run[h].pc \in Sending /\ run[h].got[u] \notin Settled
  PROVE  sent[u] = 0
  BY InvFacts DEF PollSends

(* What a step that leaves everyone's exceptions alone leaves.               *)
LEMMA PartlySame ==
  ASSUME NEW h \in Handlers, \A g \in Handlers : g # h => run'[g] = run[g],
         run[h].partly => run'[h].partly
  PROVE  RaisedPartly => RaisedPartly'
  BY DEF RaisedPartly

(* A pass of the delivery, over the units that are to be sent.               *)
LEMMA PassFacts ==
  ASSUME RetryInv, NEW h \in Handlers, NEW pass \in {"cached", "first", "again"},
         NEW got \in [Units -> Outcomes \cup {"none"}], NEW todo \in SUBSET Units,
         Pass(h, pass, got, todo)
  PROVE  \E r \in RunType :
            /\ run' = [run EXCEPT ![h] = r]
            /\ r.tok = run[h].tok /\ r.partly = run[h].partly /\ r.pc = "pass"
            /\ r.pass = pass /\ r.got = got /\ r.todo = todo
<1>. DEFINE r == [run[h] EXCEPT !.pc = "pass", !.pass = pass, !.got = got, !.todo = todo]
<1>1. run[h] \in RunType
  BY InvFacts
<1>2. r \in RunType
  BY <1>1 DEF RunType, Phases
<1>3. /\ r.tok = run[h].tok /\ r.partly = run[h].partly /\ r.pc = "pass"
      /\ r.pass = pass /\ r.got = got /\ r.todo = todo
  BY <1>1 DEF RunType
<1>4. run' = [run EXCEPT ![h] = r]
  BY InvFacts DEF Pass
<1>. QED
  BY <1>2, <1>3, <1>4

(* deliver looks at the file-id records and takes what its job has already   *)
(* settled.                                                                  *)
LEMMA DeliverKeeps ==
  ASSUME RetryInv, NEW h \in Handlers, Deliver(h)
  PROVE  RetryInv'
<1>0. /\ HandlerFits(h) /\ PollFits
      /\ job \in [Handlers -> JobType] /\ run \in [Handlers -> RunType]
      /\ run[h].pc = "deliver" /\ run[h].got = Untried /\ run[h].pass = "none"
      /\ UNCHANGED <<durable, saved, memory, store, chat, cached, limits>>
  <2>1. /\ HandlerFits(h) /\ PollFits
        /\ job \in [Handlers -> JobType] /\ run \in [Handlers -> RunType]
    BY InvFacts
  <2>2. run[h].pc = "deliver" /\ UNCHANGED <<durable, saved, memory, store, chat, cached, limits>>
    BY DEF Deliver, At, limits
  <2>. QED
    BY <2>1, <2>2 DEF HandlerFits, Before
<1>1. /\ Prior(h) \in [Units -> Outcomes \cup {"none"}]
      /\ \A u \in Units : Prior(h)[u] \notin Settled =>
            Prior(h)[u] = "none" /\ job[h].item[u] \in {"none", "failed"}
  BY <1>0 DEF Prior, Settled, Outcomes, JobType
<1>2. PICK r \in RunType :
         /\ run' = [run EXCEPT ![h] = r]
         /\ r.tok = run[h].tok /\ r.partly = run[h].partly
         /\ \/ /\ r.pc = "pass" /\ r.got = Prior(h)
               /\ r.todo = {u \in Units : Prior(h)[u] = "none"}
            \/ r.pc = "open" /\ r.got = Untried /\ r.pass = run[h].pass
  <2>1. CASE cached = Units
    <3>1. Pass(h, "cached", Prior(h), {u \in Units : Prior(h)[u] = "none"})
      BY <2>1 DEF Deliver
    <3>. QED
      BY <1>1, <3>1, PassFacts
  <2>2. CASE cached # Units
    <3>. DEFINE r == [run[h] EXCEPT !.pc = "open"]
    <3>1. run' = [run EXCEPT ![h] = r]
      BY <1>0, <2>2 DEF Deliver, Go
    <3>2. r \in RunType
      BY <1>0 DEF RunType, Phases
    <3>3. /\ r.tok = run[h].tok /\ r.partly = run[h].partly /\ r.pc = "open"
          /\ r.got = Untried /\ r.pass = run[h].pass
      BY <1>0 DEF RunType
    <3>. QED
      BY <3>1, <3>2, <3>3
  <2>. QED
    BY <2>1, <2>2
<1>3. run'[h] = r /\ run' = [run EXCEPT ![h] = run'[h]] /\ \A g \in Handlers : g # h => run'[g] = run[g]
  BY <1>0, <1>2
<1>4. RaisedPartly => RaisedPartly'
  BY <1>2, <1>3, PartlySame
<1>5. PcFits(h)
  BY <1>0, <1>2, <1>3 DEF PcFits, Holding, Acked, Working, Sending
<1>6. ReceiptFits(h)
  <2>1. ASSUME ~ durable, ~ RaisedPartly', NEW u \in Units PROVE sent[u] = 0
    BY <1>0, <1>4, <2>1, SentNothing
  <2>2. \A u \in Units : Untried[u] \notin Settled
    BY DEF Untried, Settled
  <2>3. durable => \A u \in Units : Current(h, u)' /\ run'[h].got[u] \notin Settled =>
            job[h].item[u] \in {"none", "failed"}
    <3>1. CASE r.pc = "pass"
      BY <1>1, <1>2, <1>3, <3>1
    <3>2. CASE r.pc = "open"
      <4>1. \A u \in Units : ~ Current(h, u)'
        BY <1>0, <1>2, <1>3, <3>2 DEF Current
      <4>. QED
        BY <4>1
    <3>. QED
      BY <1>2, <3>1, <3>2
  <2>. QED
    BY <1>0, <1>2, <1>3, <2>1, <2>2, <2>3 DEF ReceiptFits, PollFits
<1>7. HandlerFits(h)'
  <2>1. job'[h] = job[h] /\ durable' = durable /\ pressable' = pressable
    BY <1>0 DEF store, limits, chat
  <2>2. \A u \in run'[h].todo : run'[h].pc = "pass" => run'[h].got[u] \notin Settled
    BY <1>1, <1>2, <1>3 DEF Settled
  <2>. QED
    BY <1>0, <1>2, <1>3, <2>1, <2>2 DEF HandlerFits, Before, Sending, Rest
<1>. QED
  BY <1>0, <1>2, <1>3, <1>5, <1>6, <1>7, RunKeeps DEF Acked, Working, Sending

(* open_materialized hands over the files, for the units that failed or for  *)
(* the first pass, or raises.                                                *)
LEMMA OpenKeeps ==
  ASSUME RetryInv, NEW h \in Handlers, Open(h) \/ OpenRaises(h)
  PROVE  RetryInv'
<1>0. /\ HandlerFits(h) /\ PollFits /\ PollSends /\ SendsFit
      /\ job \in [Handlers -> JobType] /\ run \in [Handlers -> RunType]
      /\ run[h].pc = "open"
      /\ UNCHANGED <<durable, saved, memory, store, chat, cached, limits>>
  <2>1. /\ HandlerFits(h) /\ PollFits /\ PollSends /\ SendsFit
        /\ job \in [Handlers -> JobType] /\ run \in [Handlers -> RunType]
    BY InvFacts
  <2>. QED
    BY <2>1 DEF Open, OpenRaises, At, limits
<1>1. /\ Prior(h) \in [Units -> Outcomes \cup {"none"}]
      /\ \A u \in Units : Prior(h)[u] \notin Settled =>
            Prior(h)[u] = "none" /\ job[h].item[u] \in {"none", "failed"}
  BY <1>0 DEF Prior, Settled, Outcomes, JobType
<1>2. PICK r \in RunType :
         /\ run' = [run EXCEPT ![h] = r]
         /\ r.tok = run[h].tok /\ r.partly = run[h].partly
         /\ \/ /\ r.pc = "pass" /\ r.got = Prior(h) /\ run[h].got = Untried
               /\ r.todo = {u \in Units : Prior(h)[u] = "none"}
            \/ /\ r.pc = "pass" /\ r.got = run[h].got /\ run[h].pass = "cached"
               /\ r.todo = {u \in Units : run[h].got[u] = "failed"}
            \/ r.pc = "raised" /\ r.got = run[h].got
  <2>1. CASE OpenRaises(h)
    <3>. DEFINE r == [run[h] EXCEPT !.pc = "raised"]
    <3>1. run' = [run EXCEPT ![h] = r]
      BY <1>0, <2>1 DEF OpenRaises, Go
    <3>2. r \in RunType
      BY <1>0 DEF RunType, Phases
    <3>3. /\ r.tok = run[h].tok /\ r.partly = run[h].partly /\ r.pc = "raised"
          /\ r.got = run[h].got
      BY <1>0 DEF RunType
    <3>. QED
      BY <3>1, <3>2, <3>3
  <2>2. CASE Open(h) /\ run[h].pass = "cached"
    <3>1. Pass(h, "again", run[h].got, {u \in Units : run[h].got[u] = "failed"})
      BY <2>2 DEF Open
    <3>2. run[h].got \in [Units -> Outcomes \cup {"none"}]
      BY <1>0 DEF RunType
    <3>. QED
      BY <2>2, <3>1, <3>2, PassFacts
  <2>3. CASE Open(h) /\ run[h].pass # "cached"
    <3>1. Pass(h, "first", Prior(h), {u \in Units : Prior(h)[u] = "none"})
      BY <2>3 DEF Open
    <3>2. run[h].got = Untried
      BY <1>0, <2>3 DEF HandlerFits
    <3>. QED
      BY <1>1, <3>1, <3>2, PassFacts
  <2>. QED
    BY <2>1, <2>2, <2>3
<1>3. run'[h] = r /\ run' = [run EXCEPT ![h] = run'[h]] /\ \A g \in Handlers : g # h => run'[g] = run[g]
  BY <1>0, <1>2
<1>4. RaisedPartly => RaisedPartly'
  BY <1>2, <1>3, PartlySame
<1>5. PcFits(h)
  BY <1>0, <1>2, <1>3 DEF PcFits, Holding, Acked, Working, Sending
<1>6. \A u \in Units : Untried[u] \notin Settled
  BY DEF Untried, Settled
<1>7. ReceiptFits(h)
  <2>1. ASSUME ~ durable, ~ RaisedPartly', NEW u \in Units, sent[u] # 0
        PROVE  run[h].got[u] \in Settled
    BY <1>0, <1>4, <2>1, SentNothing DEF Sending
  <2>2. \A u \in Units : durable /\ Current(h, u)' /\ run'[h].got[u] \notin Settled =>
            job[h].item[u] \in {"none", "failed"}
    <3>1. CASE r.got = Prior(h)
      BY <1>1, <1>3, <3>1
    <3>2. CASE run[h].pass = "cached" /\ r.got = run[h].got
      BY <1>0, <1>3, <3>2 DEF Current, SendsFit
    <3>3. CASE r.pc = "raised"
      BY <1>3, <3>3 DEF Current
    <3>. QED
      BY <1>2, <3>1, <3>2, <3>3
  <2>. QED
    BY <1>0, <1>2, <1>3, <1>6, <2>1, <2>2 DEF ReceiptFits, PollFits
<1>8. HandlerFits(h)'
  <2>1. job'[h] = job[h] /\ durable' = durable /\ pressable' = pressable
    BY <1>0 DEF store, limits, chat
  <2>2. \A u \in run'[h].todo : run'[h].pc = "pass" => run'[h].got[u] \notin Settled
    BY <1>1, <1>2, <1>3 DEF Settled
  <2>. QED
    BY <1>0, <1>2, <1>3, <2>1, <2>2 DEF HandlerFits, Before, Sending, Rest
<1>. QED
  BY <1>0, <1>2, <1>3, <1>5, <1>7, <1>8, RunKeeps DEF Acked, Working, Sending

(* A pass ends, and the failed units get another or the receipt is done.     *)
LEMMA PassEndsKeeps ==
  ASSUME RetryInv, NEW h \in Handlers, PassEnds(h)
  PROVE  RetryInv'
<1>0. /\ HandlerFits(h) /\ PollFits /\ PollSends /\ SendsFit
      /\ job \in [Handlers -> JobType] /\ run \in [Handlers -> RunType]
      /\ run[h].pc = "pass"
      /\ UNCHANGED <<durable, saved, memory, store, chat, cached, limits>>
  <2>1. /\ HandlerFits(h) /\ PollFits /\ PollSends /\ SendsFit
        /\ job \in [Handlers -> JobType] /\ run \in [Handlers -> RunType]
    BY InvFacts
  <2>. QED
    BY <2>1 DEF PassEnds, At, limits
<1>1. PICK r \in RunType :
         /\ run' = [run EXCEPT ![h] = r]
         /\ r.tok = run[h].tok /\ r.partly = run[h].partly /\ r.got = run[h].got
         /\ \/ r.pc = "open" /\ r.pass = "cached"
            \/ r.pc = "pass" /\ r.todo = Failed(h)
            \/ r.pc = "settle"
  <2>1. CASE Pass(h, "again", run[h].got, Failed(h))
    <3>1. run[h].got \in [Units -> Outcomes \cup {"none"}] /\ Failed(h) \in SUBSET Units
      BY <1>0 DEF RunType, Failed
    <3>. QED
      BY <2>1, <3>1, PassFacts
  <2>2. ASSUME NEW pc \in {"open", "settle"}, Go(h, pc), pc = "open" => run[h].pass = "cached"
        PROVE  \E r \in RunType :
                  /\ run' = [run EXCEPT ![h] = r]
                  /\ r.tok = run[h].tok /\ r.partly = run[h].partly /\ r.got = run[h].got
                  /\ \/ r.pc = "open" /\ r.pass = "cached"
                     \/ r.pc = "settle"
    <3>. DEFINE r == [run[h] EXCEPT !.pc = pc]
    <3>1. run' = [run EXCEPT ![h] = r]
      BY <1>0, <2>2 DEF Go
    <3>2. r \in RunType
      BY <1>0 DEF RunType, Phases
    <3>3. /\ r.tok = run[h].tok /\ r.partly = run[h].partly /\ r.pc = pc
          /\ r.got = run[h].got /\ r.pass = run[h].pass
      BY <1>0 DEF RunType
    <3>. QED
      BY <2>2, <3>1, <3>2, <3>3
  <2>3. \/ Pass(h, "again", run[h].got, Failed(h))
        \/ Go(h, "settle")
        \/ Go(h, "open") /\ run[h].pass = "cached"
    BY DEF PassEnds
  <2>. QED
    BY <2>1, <2>2, <2>3
<1>2. run'[h] = r /\ run' = [run EXCEPT ![h] = run'[h]] /\ \A g \in Handlers : g # h => run'[g] = run[g]
  BY <1>0, <1>1
<1>3. RaisedPartly => RaisedPartly'
  BY <1>1, <1>2, PartlySame
<1>4. PcFits(h)
  BY <1>0, <1>1, <1>2 DEF PcFits, Holding, Acked, Working, Sending
<1>5. ReceiptFits(h)
  <2>1. ASSUME ~ durable, ~ RaisedPartly', NEW u \in Units, sent[u] # 0
        PROVE  run[h].got[u] \in Settled
    BY <1>0, <1>3, <2>1, SentNothing DEF Sending
  <2>2. \A u \in Units : durable /\ run'[h].got[u] \notin Settled =>
            job[h].item[u] \in {"none", "failed"}
    BY <1>0, <1>1, <1>2 DEF Current, SendsFit
  <2>. QED
    BY <1>0, <1>1, <1>2, <2>1, <2>2 DEF ReceiptFits, PollFits
<1>6. HandlerFits(h)'
  <2>1. job'[h] = job[h] /\ durable' = durable /\ pressable' = pressable
    BY <1>0 DEF store, limits, chat
  <2>2. \A u \in run'[h].todo : run'[h].pc = "pass" => run'[h].got[u] \notin Settled
    BY <1>1, <1>2 DEF Settled, Failed
  <2>. QED
    BY <1>0, <1>1, <1>2, <2>1, <2>2 DEF HandlerFits, Before, Sending, Rest
<1>. QED
  BY <1>0, <1>1, <1>2, <1>4, <1>5, <1>6, RunKeeps DEF Acked, Working, Sending

(* What the receipt or the exception says of a repetition.                   *)
LEMMA VerdictKeeps ==
  ASSUME RetryInv, NEW h \in Handlers, Verdict(h)
  PROVE  RetryInv'
<1>0. /\ HandlerFits(h) /\ PollFits /\ PollSends
      /\ job \in [Handlers -> JobType] /\ run \in [Handlers -> RunType]
      /\ run[h].pc \in {"raised", "settle"}
      /\ UNCHANGED <<durable, saved, memory, store, chat, cached, limits>>
  <2>1. /\ HandlerFits(h) /\ PollFits /\ PollSends
        /\ job \in [Handlers -> JobType] /\ run \in [Handlers -> RunType]
    BY InvFacts
  <2>. QED
    BY <2>1 DEF Verdict, limits
<1>1. PICK r \in RunType :
         /\ run' = [run EXCEPT ![h] = r]
         /\ r.tok = run[h].tok /\ r.got = run[h].got
         /\ r.partly <=> run[h].pc = "raised" /\ SentSome(h)
         /\ r.pc \in {"failing", IF h = 0 THEN "hide" ELSE "finish"}
         /\ r.pc = "failing" /\ run[h].pc = "settle" => RetryableReceipt(h)
  <2>. DEFINE raised == run[h].pc = "raised"
              again == IF raised THEN RetryableError(h) ELSE RetryableReceipt(h)
              pc == IF again THEN "failing" ELSE IF h = 0 THEN "hide" ELSE "finish"
              r == [run[h] EXCEPT !.error = raised, !.partly = raised /\ SentSome(h), !.pc = pc]
  <2>1. run' = [run EXCEPT ![h] = r]
    BY <1>0 DEF Verdict, At
  <2>2. pc \in Phases /\ raised \in BOOLEAN /\ (raised /\ SentSome(h)) \in BOOLEAN
    BY DEF Phases
  <2>3. r \in RunType
    BY <1>0, <2>2 DEF RunType
  <2>4. /\ r.tok = run[h].tok /\ r.got = run[h].got /\ r.pc = pc
        /\ r.partly <=> raised /\ SentSome(h)
    BY <1>0 DEF RunType
  <2>5. /\ pc \in {"failing", IF h = 0 THEN "hide" ELSE "finish"}
        /\ pc = "failing" /\ run[h].pc = "settle" => RetryableReceipt(h)
    OBVIOUS
  <2>. HIDE DEF r, pc, raised
  <2>6. r.partly <=> run[h].pc = "raised" /\ SentSome(h)
    BY <2>4 DEF raised
  <2>. QED
    BY <2>1, <2>3, <2>4, <2>5, <2>6
<1>2. run'[h] = r /\ run' = [run EXCEPT ![h] = run'[h]] /\ \A g \in Handlers : g # h => run'[g] = run[g]
  BY <1>0, <1>1
<1>3. ~ durable => ~ run[h].partly
  BY <1>0 DEF PollFits
<1>4. PcFits(h)
  BY <1>0, <1>1, <1>2 DEF PcFits, Holding, Acked, Working, Sending
<1>5. ReceiptFits(h)
  <2>1. ASSUME ~ durable, ~ RaisedPartly', NEW u \in Units, sent[u] # 0
        PROVE  r.pc # "failing"
    <3>1. run[h].got[u] \in Settled
      BY <1>0, <1>2, <1>3, <2>1, PartlySame, SentNothing DEF Sending
    <3>2. run[h].pc # "raised"
      BY <1>1, <1>2, <2>1, <3>1 DEF RaisedPartly, SentSome
    <3>3. ~ RetryableReceipt(h)
      BY <3>1 DEF RetryableReceipt, Failed, Settled
    <3>. QED
      BY <1>0, <1>1, <3>2, <3>3
  <2>. QED
    BY <1>0, <1>1, <1>2, <1>3, <2>1 DEF ReceiptFits, Current, Sending
<1>6. HandlerFits(h)'
  <2>1. job'[h] = job[h] /\ durable' = durable /\ pressable' = pressable
    BY <1>0 DEF store, limits, chat
  <2>. QED
    BY <1>0, <1>1, <1>2, <2>1 DEF HandlerFits, Before, Sending, Rest
<1>. QED
  BY <1>0, <1>1, <1>2, <1>4, <1>5, <1>6, RunKeeps DEF Acked, Working, Sending

(* What a press knows of the token it holds.                                 *)
LEMMA TokenFacts ==
  ASSUME RetryInv, NEW h \in Handlers, h # 0, run[h].pc \in Holding, NEW t, t = run[h].tok
  PROVE  /\ t \in Tokens /\ t # 0 /\ h \in Presses
         /\ run[h].pc \in Acked => ~ shown[t]
         /\ shown[t] => t \notin finished /\ (~ durable => row[t] \in {"none", "failed"})
         /\ run[h].pc \notin {"forget", "hide"} => t \notin finished
         /\ durable /\ saved[t] # Gone => saved[t] \in Handlers /\ Linked(saved[t])
         /\ ~ durable /\ ~ RaisedPartly =>
               \A u \in Units : sent[u] # 0 => row[t] \in {"open", "closed"}
         /\ ~ durable /\ run[h].pc \in Working => row[t] = "open"
<1>0. /\ ButtonsFit /\ ClaimsFit /\ ChainFits /\ PollFits /\ PollSends
      /\ h \in Presses /\ 0 \notin Tokens
  BY InvFacts
<1>1. t \in Tokens /\ t # 0 /\ (~ durable => run[0].tok = t)
  BY <1>0, PressToken DEF Holding, Acked, Working, Sending
<1>2. /\ run[h].pc \in Acked => ~ shown[t]
      /\ shown[t] => t \notin finished /\ (~ durable => row[t] \in {"none", "failed"})
  BY <1>0, <1>1 DEF ButtonsFit
<1>3. run[h].pc \notin {"forget", "hide"} => t \notin finished
  BY <1>0 DEF ClaimsFit
<1>4. durable /\ saved[t] # Gone => saved[t] \in Handlers /\ Linked(saved[t])
  BY <1>0, <1>1 DEF ChainFits
<1>5. ~ durable /\ ~ RaisedPartly =>
         \A u \in Units : sent[u] # 0 => row[t] \in {"open", "closed"}
  BY <1>0, <1>1 DEF PollSends
<1>6. ~ durable /\ run[h].pc \in Working => row[t] = "open"
  BY <1>0 DEF PollFits
<1>. QED
  BY <1>0, <1>1, <1>2, <1>3, <1>4, <1>5, <1>6

(* A step that moves a handler's phase alone.                                *)
LEMMA GoFacts ==
  ASSUME RetryInv, NEW h \in Handlers, NEW pc \in Phases, Go(h, pc)
  PROVE  /\ run' = [run EXCEPT ![h] = run'[h]] /\ run'[h] \in RunType /\ run'[h].pc = pc
         /\ run'[h].tok = run[h].tok /\ run'[h].snap = run[h].snap
         /\ run'[h].got = run[h].got /\ run'[h].partly = run[h].partly
         /\ run'[h].pass = run[h].pass /\ run'[h].todo = run[h].todo
         /\ run'[h].unit = run[h].unit
         /\ RaisedPartly' <=> RaisedPartly
<1>1. run \in [Handlers -> RunType] /\ run' = [run EXCEPT ![h].pc = pc]
  BY InvFacts DEF Go
<1>2. \A g \in Handlers : g # h => run'[g] = run[g]
  BY <1>1
<1>3. /\ run'[h] = [run[h] EXCEPT !.pc = pc] /\ run'[h] \in RunType
      /\ run' = [run EXCEPT ![h] = run'[h]]
  BY <1>1 DEF RunType
<1>4. /\ run'[h].tok = run[h].tok /\ run'[h].snap = run[h].snap
      /\ run'[h].got = run[h].got /\ run'[h].partly = run[h].partly
      /\ run'[h].pass = run[h].pass /\ run'[h].todo = run[h].todo
      /\ run'[h].unit = run[h].unit /\ run'[h].pc = pc
  BY <1>1, <1>3 DEF RunType
<1>5. RaisedPartly' <=> RaisedPartly
  BY <1>2, <1>4 DEF RaisedPartly
<1>. QED
  BY <1>3, <1>4, <1>5

(* A press that gets past its delivery offers the album again, and is done.  *)
LEMMA OfferAgainKeeps ==
  ASSUME RetryInv, NEW p \in Presses, OfferAgain(p)
  PROVE  RetryInv'
<1>0. HandlerFits(p) /\ PollFits /\ p \in Handlers /\ p # 0 /\ run[p].pc = "deliver"
  BY InvFacts DEF OfferAgain, At
<1>1. Go(p, "finish") /\ UNCHANGED <<durable, saved, memory, store, chat, cached, limits>>
  BY DEF OfferAgain, limits
<1>2. /\ run' = [run EXCEPT ![p] = run'[p]] /\ run'[p] \in RunType /\ run'[p].pc = "finish"
      /\ run'[p].tok = run[p].tok /\ run'[p].got = run[p].got /\ run'[p].partly = run[p].partly
  BY <1>0, <1>1, GoFacts DEF Phases
<1>3. PcFits(p)
  BY <1>0, <1>2 DEF PcFits, Holding, Acked, Working, Sending
<1>4. ReceiptFits(p)
  <2>1. \A u \in Units : run[p].got[u] \notin Settled
    BY <1>0 DEF HandlerFits, Before, Untried, Settled
  <2>. QED
    BY <1>0, <1>2, <2>1 DEF ReceiptFits, Current, Sending, PollFits
<1>5. HandlerFits(p)'
  <2>1. job'[p] = job[p] /\ pressable' = pressable
    BY <1>1 DEF store, chat
  <2>. QED
    BY <1>0, <1>2, <2>1 DEF HandlerFits, Before, Sending, Rest
<1>. QED
  BY <1>0, <1>1, <1>2, <1>3, <1>4, <1>5, RunKeeps DEF Acked, Working, Sending

(* The steps of a press that write its token: save the request again, take   *)
(* the button away, reserve the row, finish, forget, record the failure.     *)
LEMMA TokenKeeps ==
  ASSUME RetryInv, NEW h \in Handlers, h # 0,
         SaveAgain(h) \/ Acknowledge(h) \/ Finish(h) \/ Forget(h) \/ Failing(h)
           \/ (BeginToken(h) /\ (durable \/ row[run[h].tok] \in {"none", "failed"}))
  PROVE  RetryInv'
<1>0. /\ RetryType /\ HandlerFits(h) /\ PollFits /\ ChainFits
      /\ job \in [Handlers -> JobType] /\ run \in [Handlers -> RunType]
      /\ saved \in [Tokens -> Handlers \cup {NoJob, Gone}]
      /\ row \in [Tokens -> {"none", "open", "failed", "closed"}]
      /\ h \in Presses
  BY InvFacts
<1>1. PICK pc \in Phases :
         /\ Go(h, pc)
         /\ \/ SaveAgain(h) /\ run[h].pc = "checked" /\ pc = "saved"
            \/ Acknowledge(h) /\ run[h].pc = "saved" /\ pc = "ready"
            \/ /\ BeginToken(h) /\ run[h].pc = "ready" /\ pc = "deliver"
               /\ durable \/ row[run[h].tok] \in {"none", "failed"}
            \/ Finish(h) /\ run[h].pc = "finish" /\ pc = "forget"
            \/ Forget(h) /\ run[h].pc = "forget" /\ pc = "hide"
            \/ Failing(h) /\ run[h].pc = "failing" /\ pc = "hide"
  BY DEF SaveAgain, Acknowledge, BeginToken, Finish, Forget, Failing, At, Phases
<1>2. PICK t \in Tokens : t = run[h].tok
  BY <1>1, TokenFacts DEF Holding, Acked, Working, Sending
<1>3. /\ run[h].pc \in Holding /\ run[h].pc # "idle"
      /\ run' = [run EXCEPT ![h] = run'[h]] /\ run'[h] \in RunType /\ run'[h].pc = pc
      /\ run'[h].tok = t /\ run'[h].snap = run[h].snap
      /\ run'[h].got = run[h].got /\ run'[h].partly = run[h].partly
      /\ run'[h].pass = run[h].pass
      /\ RaisedPartly' <=> RaisedPartly
  BY <1>1, <1>2, GoFacts DEF Holding, Acked, Working, Sending
<1>4. /\ UNCHANGED <<durable, pressable, sent, cached, crashes, active, job>>
      /\ faults' = faults \/ Fault
  BY <1>0, <1>1 DEF SaveAgain, Acknowledge, BeginToken, Finish, Forget, Failing, At, memory, store,
                    chat, limits
<1>5. /\ \/ saved' = saved
         \/ SaveAgain(h) /\ saved' = [saved EXCEPT ![t] = IF durable THEN h ELSE run[h].snap]
         \/ Forget(h) /\ saved' = [saved EXCEPT ![t] = Gone]
      /\ \/ finished' = finished
         \/ Finish(h) /\ finished' = finished \cup {t}
      /\ \/ shown' = shown
         \/ Acknowledge(h) /\ shown' = [shown EXCEPT ![t] = FALSE]
  BY <1>0, <1>1, <1>2 DEF SaveAgain, Acknowledge, BeginToken, Finish, Forget, Failing, At, memory, store,
                    chat, limits
<1>6. IF BeginToken(h) /\ pc = "deliver" THEN row' = IF durable THEN row ELSE [row EXCEPT ![t] = "open"]
      ELSE IF Forget(h) /\ pc = "hide" /\ run[h].pc = "forget"
      THEN row' = IF durable THEN row ELSE [row EXCEPT ![t] = "closed"]
      ELSE IF Failing(h) /\ pc = "hide" /\ run[h].pc = "failing"
      THEN row' = IF durable THEN row ELSE [row EXCEPT ![t] = "failed"]
      ELSE row' = row
  BY <1>0, <1>1, <1>2 DEF SaveAgain, Acknowledge, BeginToken, Finish, Forget, Failing, At, memory, store,
                    chat, limits
<1>7. run[h].snap \in Handlers \cup {NoJob, Gone}
  BY <1>0 DEF RunType
<1>8. StepFrame(h)
  <2>1. faults' \in 0 .. MaxFaults /\ crashes' \in 0 .. MaxCrashes /\ cached' \subseteq Units
    BY <1>0, <1>4, RetryAssumption DEF RetryType, Fault
  <2>2. /\ saved' \in [Tokens -> Handlers \cup {NoJob, Gone}]
        /\ \A x \in Tokens : x # t => saved'[x] = saved[x]
    BY <1>0, <1>5, <1>7
  <2>3. /\ row' \in [Tokens -> {"none", "open", "failed", "closed"}]
        /\ \A x \in Tokens : x # t => row'[x] = row[x]
    BY <1>0, <1>6
  <2>4. /\ shown' \in [Tokens -> BOOLEAN] /\ finished' \subseteq Tokens
        /\ \A x \in Tokens : x # t => shown'[x] = shown[x] /\ (x \in finished' <=> x \in finished)
    BY <1>0, <1>5 DEF RetryType
  <2>. QED
    BY <1>0, <1>2, <1>3, <1>4, <2>1, <2>2, <2>3, <2>4 DEF StepFrame
<1>9. PcFits(h)
  <2>1. pc \in Working \cup {"saved", "ready", "hide"} /\ run[h].pc \in Working \cup {"checked", "saved", "ready"}
    BY <1>1 DEF Working, Sending
  <2>. QED
    BY <1>1, <1>3, <2>1 DEF PcFits, Working, Sending
<1>10. HandlerFits(h)'
  <2>1. job'[h] = job[h] /\ pressable' = pressable /\ job[h].state # "absent"
    BY <1>0, <1>3, <1>4 DEF HandlerFits
  <2>. QED
    BY <1>0, <1>1, <1>2, <1>3, <2>1 DEF HandlerFits, Before
<1>11. /\ shown[t] => t \notin finished /\ (~ durable => row[t] \in {"none", "failed"})
       /\ run[h].pc \in Acked => ~ shown[t]
       /\ run[h].pc \notin {"forget", "hide"} => t \notin finished
       /\ durable /\ saved[t] # Gone => saved[t] \in Handlers /\ Linked(saved[t])
       /\ ~ durable /\ ~ RaisedPartly =>
             \A u \in Units : sent[u] # 0 => row[t] \in {"open", "closed"}
       /\ ~ durable /\ run[h].pc \in Working => row[t] = "open"
       /\ ~ durable /\ run[h].pc = "forget" => t \in finished
  BY <1>0, <1>2, <1>3, TokenFacts DEF PollFits
<1>12. ReceiptFits(h)
  <2>1. ASSUME ~ durable, ~ RaisedPartly, NEW u \in Units, sent[u] # 0
        PROVE  pc # "deliver"
    BY <1>1, <1>2, <1>11, <2>1
  <2>2. pc \notin Sending \cup {"failing"} /\ \A u \in Units : ~ Current(h, u)'
    BY <1>1, <1>3 DEF Sending, Current
  <2>3. pc \in {"saved", "ready", "deliver"} /\ ~ durable => ~ run[h].partly
    BY <1>0, <1>1 DEF PollFits
  <2>. QED
    BY <1>1, <1>3, <2>1, <2>2, <2>3 DEF ReceiptFits, Current, Sending
<1>13. TokenFits(h)
  <2>1. shown'[t] => /\ shown[t] /\ pc \notin Acked
                     /\ t \notin finished' /\ (~ durable => row'[t] \in {"none", "failed"})
    <3>1. CASE SaveAgain(h) /\ run[h].pc = "checked" /\ pc = "saved"
      BY <1>0, <1>5, <1>6, <1>11, <3>1 DEF Acked, Working, Sending, SaveAgain, memory, chat, store
    <3>2. CASE run[h].pc = "saved" /\ pc = "ready" /\ Acknowledge(h)
      BY <1>0, <1>2, <3>2 DEF Acknowledge, RetryType
    <3>3. CASE run[h].pc \in {"ready", "finish", "forget", "failing"}
      <4>1. ~ shown[t]
        BY <1>11, <3>3 DEF Acked, Working
      <4>2. shown'[t] => shown[t]
        BY <1>0, <1>5 DEF RetryType
      <4>. QED
        BY <4>1, <4>2
    <3>. QED
      BY <1>1, <3>1, <3>2, <3>3
  <2>2. pc \in Holding \ {"forget", "hide"} => t \notin finished'
    BY <1>1, <1>3, <1>5, <1>11 DEF Finish, At
  <2>3. durable /\ saved'[t] # Gone => saved'[t] \in Handlers /\ Linked(saved'[t])
    <3>1. SaveAgain(h) /\ durable => Linked(h)
      BY <1>0 DEF SaveAgain, At, ChainFits
    <3>. QED
      BY <1>0, <1>5, <1>11, <3>1
  <2>4. ~ durable => /\ pc \in Working => row'[t] = "open"
                     /\ pc = "hide" => row'[t] = IF t \in finished' THEN "closed" ELSE "failed"
                     /\ pc = "forget" => t \in finished'
    <3>1. CASE pc \in {"saved", "ready"}
      BY <3>1 DEF Working, Sending
    <3>2. CASE pc = "deliver"
      BY <1>0, <1>1, <1>6, <3>2
    <3>3. CASE pc = "forget"
      BY <1>1, <1>2, <1>6, <1>11, <3>3 DEF Finish, Working
    <3>4. CASE pc = "hide" /\ run[h].pc = "forget"
      BY <1>0, <1>1, <1>5, <1>6, <1>11, <3>4 DEF Working, Sending, Finish, At
    <3>5. CASE pc = "hide" /\ run[h].pc = "failing"
      BY <1>0, <1>1, <1>5, <1>6, <1>11, <3>5 DEF Working, Sending, Finish, At
    <3>. QED
      BY <1>1, <3>1, <3>2, <3>3, <3>4, <3>5
  <2>5. ASSUME ~ durable, ~ RaisedPartly', NEW u \in Units, sent[u] # 0
        PROVE  row'[t] \in {"open", "closed"}
    <3>1. row[t] \in {"open", "closed"} /\ run[h].pc # "failing"
      BY <1>3, <1>11, <2>5, SentNothing
    <3>. QED
      BY <1>0, <1>1, <1>6, <2>5, <3>1
  <2>. QED
    BY <1>2, <1>3, <2>1, <2>2, <2>3, <2>4, <2>5 DEF TokenFits
<1>. QED
  BY <1>8, <1>9, <1>10, <1>12, <1>13, StepKeeps

(* begin_retry_token reserves the row, or the press ends.                    *)
LEMMA BeginKeeps ==
  ASSUME RetryInv, NEW p \in Presses, BeginToken(p)
  PROVE  RetryInv'
<1>0. /\ RetryType /\ p \in Handlers /\ p # 0 /\ run[p].pc = "ready"
      /\ UNCHANGED <<durable, saved, finished, shown, pressable, sent, cached, crashes, faults>>
  BY InvFacts DEF BeginToken, At, chat, limits
<1>1. CASE durable \/ row[run[p].tok] \in {"none", "failed"}
  BY <1>0, <1>1, TokenKeeps
<1>2. CASE ~ (durable \/ row[run[p].tok] \in {"none", "failed"})
  <2>1. End(p, FALSE) /\ row' = row
    BY <1>2 DEF BeginToken
  <2>2. run[p].pc \in Holding
    BY <1>0 DEF Holding, Acked
  <2>. QED
    BY <1>0, <2>1, <2>2, EndKeeps DEF End, RetryType
<1>. QED
  BY <1>1, <1>2

(* The first request finds no free token: nothing is saved.                  *)
LEMMA NoTokenKeeps ==
  ASSUME RetryInv, Failing(0), Go(0, "hide"), UNCHANGED saved
  PROVE  RetryInv'
<1>0. HandlerFits(0) /\ PollFits /\ 0 \in Handlers /\ run[0].pc = "failing"
  BY InvFacts DEF Failing, At
<1>1. UNCHANGED <<durable, saved, memory, store, chat, cached, limits>>
  BY DEF Failing, limits, store
<1>2. /\ run' = [run EXCEPT ![0] = run'[0]] /\ run'[0] \in RunType /\ run'[0].pc = "hide"
      /\ run'[0].tok = run[0].tok /\ run'[0].got = run[0].got /\ run'[0].partly = run[0].partly
  BY <1>0, GoFacts DEF Phases
<1>3. PcFits(0)
  BY <1>0, <1>2 DEF PcFits, Holding, Acked, Working, Sending
<1>4. ReceiptFits(0)
  BY <1>0, <1>2 DEF ReceiptFits, Current, Sending
<1>5. HandlerFits(0)'
  <2>1. job'[0] = job[0] /\ pressable' = pressable
    BY <1>1 DEF store, chat
  <2>. QED
    BY <1>0, <1>2, <2>1 DEF HandlerFits, Before, Sending, Rest
<1>. QED
  BY <1>0, <1>1, <1>2, <1>3, <1>4, <1>5, RunKeeps DEF Acked, Working, Sending

(* The first request is saved under a token nobody has pressed, when nothing *)
(* of it was sent.                                                           *)
LEMMA FailingKeeps ==
  ASSUME RetryInv, Failing(0)
  PROVE  RetryInv'
<1>0. /\ RetryType /\ (\A h \in Handlers : HandlerFits(h)) /\ ClaimsFit /\ ButtonsFit
      /\ PollFits /\ PollSends /\ PollCounts /\ ChainFits /\ SendsFit
      /\ job \in [Handlers -> JobType] /\ run \in [Handlers -> RunType]
      /\ saved \in [Tokens -> Handlers \cup {NoJob, Gone}]
      /\ 0 \in Handlers /\ 0 \notin Tokens
      /\ \A q \in Presses : q \in Handlers /\ q # 0
  BY InvFacts
<1>1. /\ run[0].pc = "failing" /\ run[0].tok = 0
      /\ UNCHANGED <<durable, active, finished, row, job, shown, pressable, sent, cached, crashes, faults>>
  <2>1. /\ run[0].pc = "failing"
        /\ UNCHANGED <<durable, active, finished, row, job, shown, pressable, sent, cached, crashes, faults>>
    BY DEF Failing, At, memory, chat, limits
  <2>. QED
    BY <1>0, <2>1 DEF HandlerFits
<1>2. CASE Go(0, "hide") /\ UNCHANGED saved
  BY <1>2, NoTokenKeeps
<1>3. CASE \E t \in NextToken :
              /\ saved' = [saved EXCEPT ![t] = IF durable THEN 0 ELSE NoJob]
              /\ run' = [run EXCEPT ![0].pc = "hide", ![0].tok = t]
  <2>1. PICK t \in NextToken :
           /\ saved' = [saved EXCEPT ![t] = IF durable THEN 0 ELSE NoJob]
           /\ run' = [run EXCEPT ![0].pc = "hide", ![0].tok = t]
    BY <1>3
  <2>2. t \in Tokens /\ t \notin pressable /\ t # 0
    BY <1>0, <2>1 DEF NextToken
  <2>3. /\ run'[0] \in RunType /\ run'[0].pc = "hide" /\ run'[0].tok = t
        /\ run'[0].got = run[0].got /\ run'[0].partly = run[0].partly
        /\ \A g \in Handlers : g # 0 => run'[g] = run[g]
        /\ run' \in [Handlers -> RunType]
    <3>. DEFINE r == [run[0] EXCEPT !.pc = "hide", !.tok = t]
    <3>1. run' = [run EXCEPT ![0] = r]
      BY <1>0, <2>1
    <3>2. run[0] \in RunType
      BY <1>0
    <3>3. /\ r \in RunType /\ r.pc = "hide" /\ r.tok = t
          /\ r.got = run[0].got /\ r.partly = run[0].partly
      BY <2>2, <3>2 DEF RunType, Phases
    <3>. HIDE DEF r
    <3>. QED
      BY <1>0, <3>1, <3>3
  <2>4. /\ saved' \in [Tokens -> Handlers \cup {NoJob, Gone}]
        /\ \A x \in Tokens : x # t => saved'[x] = saved[x]
        /\ durable => saved'[t] = 0
    BY <1>0, <2>1, <2>2
  <2>5. RetryType'
    BY <1>0, <1>1, <2>3, <2>4 DEF RetryType
  <2>6. \A h \in Handlers : HandlerFits(h)'
    <3>1. HandlerFits(0)'
      BY <1>0, <1>1, <2>2, <2>3 DEF HandlerFits, Rest, Before
    <3>2. ASSUME NEW h \in Handlers, h # 0 PROVE HandlerFits(h)'
      BY <1>0, <1>1, <2>3, <3>2 DEF HandlerFits
    <3>. QED
      BY <3>1, <3>2
  <2>7. ClaimsFit' /\ ButtonsFit'
    <3>1. \A q \in Presses : run'[q] = run[q]
      BY <1>0, <2>3
    <3>2. ClaimsFit'
      BY <1>0, <1>1, <3>1 DEF ClaimsFit
    <3>3. ButtonsFit'
      BY <1>0, <1>1, <3>1 DEF ButtonsFit
    <3>. QED
      BY <3>2, <3>3
  <2>8. PollFits'
    <3>1. SUFFICES ASSUME ~ durable PROVE PollFits'
      BY <1>1 DEF PollFits
    <3>2. \A x \in Tokens : saved[x] = Gone /\ x \notin pressable /\ ~ shown[x]
      BY <1>0, <1>1, <3>1 DEF PollFits
    <3>3. \A x \in Tokens : saved'[x] # Gone \/ x \in pressable' \/ shown'[x] => run'[0].tok = x
      BY <1>1, <2>3, <2>4, <3>2
    <3>4. \A h \in Handlers : run'[h].partly => run'[h].pc \in {"idle", "failing", "hide"}
                                                     \cup {"finish", "forget"}
      BY <1>0, <2>3, <3>1 DEF PollFits
    <3>. QED
      BY <1>0, <1>1, <2>3, <3>1, <3>3, <3>4 DEF PollFits
  <2>9. RaisedPartly' <=> RaisedPartly
    <3>1. \A g \in Handlers : run'[g].partly = run[g].partly
      BY <2>3
    <3>. QED
      BY <3>1 DEF RaisedPartly
  <2>10. PollSends'
    <3>1. SUFFICES ASSUME ~ durable, ~ RaisedPartly, NEW u \in Units PROVE sent'[u] = 0
      BY <1>1, <2>9 DEF PollSends
    <3>. QED
      BY <1>0, <1>1, <3>1, SentNothing
  <2>11. PollCounts'
    <3>1. \A u \in Units : Senders(u)' = Senders(u)
      BY <1>0, <1>1, <2>3 DEF Senders, Idle, At
    <3>. QED
      BY <1>0, <1>1, <3>1 DEF PollCounts
  <2>12. ChainFits'
    <3>1. /\ \A k : Linked(k)' <=> Linked(k)
          /\ \A j : Superseded(j)' <=> Superseded(j)
          /\ \A j : Unsafe(job[j])' <=> Unsafe(job[j])
          /\ Linked(0)
      BY <1>1 DEF Linked, Superseded, Unsafe
    <3>2. \A h \in Handlers : run'[h].pc # "idle" => run[h].pc # "idle"
      BY <1>0, <1>1, <2>3
    <3>3. \A q \in Presses : run'[q] = run[q]
      BY <1>0, <2>3
    <3>4. \A h \in Handlers : run'[h].pc \in Working \cup {"checked", "saved", "ready", "hide"} =>
             run[h].pc \in Working \cup {"checked", "saved", "ready", "hide"}
      BY <1>0, <1>1, <2>3 DEF Working
    <3>5. durable => \A x \in Tokens : saved'[x] # Gone => saved'[x] \in Handlers /\ Linked(saved'[x])
      BY <1>0, <2>4, <3>1 DEF ChainFits
    <3>. QED
      BY <1>0, <1>1, <3>1, <3>2, <3>3, <3>4, <3>5 DEF ChainFits
  <2>13. SendsFit'
    <3>1. \A h \in Handlers, u \in Units : (Noted(h, u) => Noted(h, u)') /\ (Current(h, u)' => Current(h, u))
      BY <1>0, <1>1, <2>3 DEF Noted, Current
    <3>2. \A h \in Handlers : run'[h].got = run[h].got
      BY <2>3
    <3>. QED
      BY <1>0, <1>1, <3>1, <3>2 DEF SendsFit
  <2>. QED
    BY <2>5, <2>6, <2>7, <2>8, <2>10, <2>11, <2>12, <2>13 DEF RetryInv
<1>. QED
  BY <1>2, <1>3 DEF Failing

(* The first request's last edit shows the button under its new token.       *)
LEMMA ShowKeeps ==
  ASSUME RetryInv, run[0].pc = "hide", Keeps(0), NEW t \in Tokens, t = run[0].tok,
         shown' = [shown EXCEPT ![t] = TRUE], pressable' = pressable \cup {t},
         End(0, run[0].error),
         UNCHANGED <<durable, saved, finished, row, sent, cached, crashes, faults>>
  PROVE  RetryInv'
<1>0. /\ RetryType /\ (\A h \in Handlers : HandlerFits(h)) /\ ClaimsFit /\ ButtonsFit
      /\ PollFits /\ PollSends /\ PollCounts /\ ChainFits /\ SendsFit
      /\ job \in [Handlers -> JobType] /\ run \in [Handlers -> RunType]
      /\ sent \in [Units -> Nat]
      /\ 0 \in Handlers /\ 0 \notin Tokens
      /\ \A q \in Presses : q \in Handlers /\ q # 0
  BY InvFacts
<1>1. /\ t \notin pressable /\ t # 0 /\ t \notin finished /\ row[t] = "none"
      /\ job[0].state = "running"
  <2>1. t # 0
    BY <1>0
  <2>2. t \notin pressable /\ job[0].state = "running"
    BY <1>0, <2>1 DEF HandlerFits
  <2>. QED
    BY <1>0, <2>1, <2>2 DEF ClaimsFit, Keeps
<1>2. /\ run' = [run EXCEPT ![0] = Over(0)] /\ job' = [job EXCEPT ![0] = Closed(@, run[0].error)]
      /\ active' = active
  BY DEF End
<1>3. /\ run'[0] = Over(0) /\ Over(0) \in RunType
      /\ run'[0].pc = "idle" /\ run'[0].tok = t /\ run'[0].partly = run[0].partly
      /\ run'[0].got = Untried /\ run'[0].pass = "none"
      /\ \A g \in Handlers : g # 0 => run'[g] = run[g]
      /\ run' \in [Handlers -> RunType]
  BY <1>0, <1>2, RetryAssumption DEF Over, Rest, RunType, Phases, Handlers, Gone, NoJob, Untried
<1>4. /\ job' = [job EXCEPT ![0] = job'[0]]
      /\ \/ job'[0] = job[0]
         \/ durable /\ \E s \in {"failed", "completed"} : job'[0] = [job[0] EXCEPT !.state = s]
  BY <1>0, <1>2 DEF Closed
<1>5. /\ \A g \in Handlers : /\ job'[g].item = job[g].item /\ job'[g].next = job[g].next
                             /\ job'[g].state = "absent" <=> job[g].state = "absent"
                             /\ Unsafe(job[g])' <=> Unsafe(job[g])
                             /\ durable => (Superseded(g)' <=> Superseded(g))
      /\ job' \in [Handlers -> JobType]
      /\ \A k : Linked(k)' <=> Linked(k)
  BY <1>0, <1>4, ClosedJobs
<1>6. \A h \in Handlers : h # 0 => job'[h] = job[h]
  BY <1>0, <1>4
<1>7. RetryType'
  BY <1>0, <1>2, <1>3, <1>5 DEF RetryType
<1>8. \A h \in Handlers : HandlerFits(h)'
  <2>1. HandlerFits(0)'
    BY <1>0, <1>1, <1>3, <1>5 DEF HandlerFits, Before
  <2>2. ASSUME NEW h \in Handlers, h # 0 PROVE HandlerFits(h)'
    BY <1>0, <1>3, <1>6, <2>2 DEF HandlerFits
  <2>. QED
    BY <2>1, <2>2
<1>9. \A q \in Presses : run'[q] = run[q] /\ run[q].tok # t
  BY <1>0, <1>1, <1>3 DEF HandlerFits
<1>10. ClaimsFit'
  BY <1>0, <1>2, <1>9 DEF ClaimsFit
<1>11. ButtonsFit'
  <2>1. \A x \in Tokens : shown'[x] => x = t \/ shown[x]
    BY <1>0
  <2>. QED
    BY <1>0, <1>1, <1>9, <2>1 DEF ButtonsFit
<1>12. \A g \in Handlers : run'[g].partly = run[g].partly /\ run'[g].tok = run[g].tok
  BY <1>3
<1>13. RaisedPartly' <=> RaisedPartly
  BY <1>12 DEF RaisedPartly
<1>14. ~ durable => job' = job
  BY <1>0, <1>2 DEF Closed
<1>15. PollFits'
  <2>1. SUFFICES ASSUME ~ durable PROVE PollFits'
    BY DEF PollFits
  <2>2. \A h \in Handlers : run'[h].partly => run'[h].pc \in {"idle", "failing", "hide"}
                                                   \cup {"finish", "forget"}
    BY <1>0, <1>3, <2>1 DEF PollFits
  <2>3. \A x \in Tokens : saved'[x] # Gone \/ x \in pressable' \/ shown'[x] => run'[0].tok = x
    BY <1>0, <1>3, <2>1 DEF PollFits
  <2>. QED
    BY <1>0, <1>9, <1>14, <2>1, <2>2, <2>3 DEF PollFits
<1>16. PollSends'
  <2>1. \A h \in Handlers : run'[h].pc \in Sending \cup {"deliver", "failing"} => run'[h] = run[h]
    BY <1>3 DEF Sending
  <2>. QED
    BY <1>0, <1>12, <1>13, <1>14, <2>1 DEF PollSends
<1>17. PollCounts'
  <2>1. SUFFICES ASSUME ~ durable, NEW u \in Units PROVE sent[u] <= Cardinality(Senders(u)')
    BY DEF PollCounts
  <2>2. Senders(u) \subseteq Senders(u)'
    BY <1>3, <1>14, <2>1 DEF Senders, Idle, At
  <2>3. IsFiniteSet(Senders(u)')
    <3>1. IsFiniteSet(Handlers)
      BY RetryAssumption, FS_AddElement DEF Handlers
    <3>. QED
      BY <3>1, FS_Subset DEF Senders
  <2>4. sent[u] <= Cardinality(Senders(u))
    BY <1>0, <2>1 DEF PollCounts
  <2>5. /\ Cardinality(Senders(u)) <= Cardinality(Senders(u)')
        /\ Cardinality(Senders(u)) \in Nat /\ Cardinality(Senders(u)') \in Nat
    BY <2>2, <2>3, FS_Subset, FS_CardinalityType
  <2>. QED
    BY <1>0, <2>4, <2>5
<1>18. ChainFits'
  <2>1. \A h \in Handlers : run'[h].pc # "idle" => run[h].pc # "idle"
    BY <1>3
  <2>2. \A h \in Handlers : run'[h].pc \in Working \cup {"checked", "saved", "ready", "hide"} =>
           run'[h] = run[h]
    BY <1>3 DEF Working, Sending
  <2>3. durable => (\A x \in Tokens : saved[x] # Gone => saved[x] \in Handlers /\ Linked(saved[x]))'
    <3>1. ASSUME durable, NEW x \in Tokens, saved[x] # Gone
          PROVE  saved[x] \in Handlers /\ \E k \in Handlers : k = saved[x] /\ Linked(k)'
      BY <1>0, <1>5, <3>1 DEF ChainFits
    <3>. QED
      BY <3>1 DEF Linked
  <2>4. durable => (\A q \in Presses : run[q].pc \in {"read", "claimed", "checked"} =>
            run[q].snap \in Handlers /\ Linked(run[q].snap))'
    <3>1. ASSUME durable, NEW q \in Presses, run[q].pc \in {"read", "claimed", "checked"}
          PROVE  run[q].snap \in Handlers /\ \E k \in Handlers : k = run[q].snap /\ Linked(k)'
      BY <1>0, <1>5, <3>1 DEF ChainFits
    <3>. QED
      BY <1>9, <3>1 DEF Linked
  <2>5. durable => \A j \in Handlers : job'[j].next # NoJob => Superseded(j)'
    BY <1>0, <1>5 DEF ChainFits
  <2>6. durable => \A j, k \in Handlers :
          Linked(j)' /\ Linked(k)' /\ ~ Superseded(j)' /\ ~ Superseded(k)' => j = k
    BY <1>0, <1>5 DEF ChainFits
  <2>7. durable => \A h \in Handlers :
           run'[h].pc \in Working \cup {"checked", "saved", "ready", "hide"} => Linked(h)'
    BY <1>0, <1>5, <2>2 DEF ChainFits
  <2>8. durable => \A j \in Handlers : Unsafe(job[j])' => Linked(j)'
    BY <1>0, <1>5 DEF ChainFits
  <2>9. durable => \A g, h \in Handlers : run'[g].pc # "idle" /\ run'[h].pc # "idle" => g = h
    BY <1>0, <2>1 DEF ChainFits
  <2>. QED
    BY <2>3, <2>4, <2>5, <2>6, <2>7, <2>8, <2>9 DEF ChainFits
<1>19. SendsFit'
  <2>1. \A h \in Handlers, u \in Units : (Noted(h, u) => Noted(h, u)')
    BY <1>3, <1>5 DEF Noted
  <2>2. \A h \in Handlers, u \in Units : Current(h, u)' => Current(h, u) /\ run'[h] = run[h]
    BY <1>3 DEF Current
  <2>. QED
    BY <1>0, <1>5, <2>1, <2>2 DEF SendsFit
<1>. QED
  BY <1>7, <1>8, <1>10, <1>11, <1>15, <1>16, <1>17, <1>18, <1>19 DEF RetryInv

(* The last edit of the status message, with or without the button.          *)
LEMMA HideKeeps ==
  ASSUME RetryInv, NEW h \in Handlers, Hide(h)
  PROVE  RetryInv'
<1>0. /\ RetryType /\ HandlerFits(h) /\ run[h].pc = "hide"
      /\ run \in [Handlers -> RunType]
      /\ UNCHANGED <<durable, saved, finished, row, sent, cached, crashes>>
  BY InvFacts DEF Hide, At
<1>1. run[h].pc \in Holding
  BY <1>0 DEF Holding, Acked
<1>2. CASE Fault /\ End(h, TRUE) /\ UNCHANGED <<shown, pressable>>
  <2>1. faults' \in 0 .. MaxFaults
    BY <1>0, <1>2, RetryAssumption DEF RetryType, Fault
  <2>2. \A t \in Tokens : shown'[t] => shown[t] \/ (run[h].pc = "hide" /\ t \notin finished)
    BY <1>2
  <2>. QED
    BY <1>0, <1>1, <1>2, <2>1, <2>2, EndKeeps DEF End, RetryType
<1>3. CASE /\ shown' = IF Keeps(h) THEN [shown EXCEPT ![run[h].tok] = TRUE] ELSE shown
           /\ pressable' = IF Keeps(h) THEN pressable \cup {run[h].tok} ELSE pressable
           /\ End(h, run[h].error) /\ UNCHANGED faults
  <2>1. CASE h = 0 /\ Keeps(h)
    <3>1. run[0].tok \in Tokens
      BY <1>0, <2>1 DEF Keeps, RunType
    <3>. QED
      BY <1>0, <1>3, <2>1, <3>1, ShowKeeps
  <2>2. CASE h # 0 /\ Keeps(h)
    <3>1. PICK t \in Tokens : t = run[h].tok /\ t \in pressable
      BY <1>0, <2>2, PressToken
    <3>2. /\ pressable' = pressable /\ shown' \in [Tokens -> BOOLEAN]
          /\ \A x \in Tokens : x # t => shown'[x] = shown[x]
          /\ t \notin finished
      BY <1>0, <1>3, <2>2, <3>1 DEF RetryType, Keeps
    <3>3. \A x \in Tokens : shown'[x] => shown[x] \/ (run[h].pc = "hide" /\ x \notin finished)
      BY <1>0, <3>2
    <3>4. \A x \in Tokens : x # run[h].tok \/ h = 0 \/ run[h].pc \notin Holding => shown'[x] = shown[x]
      BY <1>1, <2>2, <3>1, <3>2
    <3>5. run[h].error \in BOOLEAN
      BY <1>0 DEF RunType
    <3>. QED
      BY <1>0, <1>1, <1>3, <2>2, <3>2, <3>3, <3>4, <3>5, EndKeeps DEF End, RetryType
  <2>3. CASE ~ Keeps(h)
    <3>1. pressable' = pressable /\ shown' = shown
      BY <1>3, <2>3
    <3>2. \A t \in Tokens : shown'[t] => shown[t] \/ (run[h].pc = "hide" /\ t \notin finished)
      BY <3>1
    <3>. QED
      BY <1>0, <1>1, <1>3, <3>1, <3>2, EndKeeps DEF End, RetryType
  <2>. QED
    BY <2>1, <2>2, <2>3
<1>. QED
  BY <1>2, <1>3 DEF Hide

(* A handler starts: for the first time, or again with its durable job.      *)
LEMMA BeginsKeeps ==
  ASSUME RetryInv, NEW h \in Handlers, Free(h), NEW r \in RunType,
         NEW s \in {"running", "failed", "completed"},
         s = "running" \/ (durable /\ r.pc = "idle"),
         \/ job[h].state = "absent" /\ run[h] = Rest
         \/ durable /\ job[h].state = "checkpointed",
         r.got = Untried, r.pass = "none", ~ r.partly,
         \/ h = 0 /\ r.pc = "deliver" /\ r.tok = 0
         \/ /\ h # 0 /\ r.pc \in {"idle", "read"} /\ r.tok \in pressable
            /\ r.pc = "read" => r.snap = saved[r.tok] /\ saved[r.tok] # Gone,
         run' = [run EXCEPT ![h] = r], job' = [job EXCEPT ![h].state = s],
         UNCHANGED <<durable, saved, active, finished, row, shown, pressable, sent, cached,
                     crashes, faults>>
  PROVE  RetryInv'
<1>0. /\ RetryType /\ (\A g \in Handlers : HandlerFits(g)) /\ ClaimsFit /\ ButtonsFit
      /\ PollFits /\ PollSends /\ PollCounts /\ ChainFits /\ SendsFit
      /\ job \in [Handlers -> JobType] /\ run \in [Handlers -> RunType]
      /\ sent \in [Units -> Nat]
      /\ 0 \in Handlers /\ 0 \notin Tokens /\ NoJob \notin Handlers
      /\ \A q \in Presses : q \in Handlers /\ q # 0
  BY InvFacts
<1>1. /\ run'[h] = r /\ \A g \in Handlers : g # h => run'[g] = run[g]
      /\ run' \in [Handlers -> RunType]
      /\ run[h].pc = "idle" /\ (durable => \A g \in Handlers : run[g].pc = "idle")
  BY <1>0 DEF Free, Idle, At
<1>2. /\ job'[h] = [job[h] EXCEPT !.state = s] /\ job'[h] \in JobType
      /\ job'[h].state = s
      /\ \A g \in Handlers : g # h => job'[g] = job[g]
      /\ \A g \in Handlers : job'[g].item = job[g].item /\ job'[g].next = job[g].next
      /\ job' \in [Handlers -> JobType]
  BY <1>0 DEF JobType
<1>3. RetryType'
  BY <1>0, <1>1, <1>2 DEF RetryType
<1>4. \A g \in Handlers : HandlerFits(g)'
  <2>1. HandlerFits(h)'
    <3>1. h # 0 => r.tok # 0
      BY <1>0 DEF RetryType
    <3>. QED
      BY <1>1, <1>2, <3>1 DEF HandlerFits, Before
  <2>2. ASSUME NEW g \in Handlers, g # h PROVE HandlerFits(g)'
    BY <1>0, <1>1, <1>2, <2>2 DEF HandlerFits
  <2>. QED
    BY <2>1, <2>2
<1>5. \A q \in Presses : run'[q].pc \in Holding => run'[q] = run[q]
  BY <1>0, <1>1 DEF Holding, Acked, Working, Sending
<1>6. ClaimsFit' /\ ButtonsFit'
  <2>1. ClaimsFit'
    BY <1>0, <1>5 DEF ClaimsFit
  <2>2. \A q \in Presses : run'[q].pc \in Acked => run'[q] = run[q]
    BY <1>5 DEF Holding
  <2>3. ButtonsFit'
    BY <1>0, <2>2 DEF ButtonsFit
  <2>. QED
    BY <2>1, <2>3
<1>7. ~ durable => job[h].state = "absent" /\ run[h] = Rest /\ s = "running"
  OBVIOUS
<1>8. ~ durable => \A g \in Handlers : run'[g].partly = run[g].partly
  BY <1>0, <1>1, <1>7 DEF Rest, RunType
<1>9. ~ durable => (RaisedPartly' <=> RaisedPartly)
  BY <1>8 DEF RaisedPartly
<1>10. ~ durable /\ h = 0 => run'[0].tok = run[0].tok
  BY <1>1, <1>7 DEF Rest
<1>11. PollFits'
  <2>1. SUFFICES ASSUME ~ durable PROVE PollFits'
    BY DEF PollFits
  <2>2. run'[0].tok = run[0].tok
    BY <1>0, <1>1, <1>10, <2>1
  <2>3. \A g \in Handlers : run'[g].partly => run'[g].pc \in {"idle", "failing", "hide"}
                                                   \cup {"finish", "forget"}
    BY <1>0, <1>1, <2>1 DEF PollFits
  <2>4. \A g \in Handlers : job'[g].item = Untried /\ job'[g].next = NoJob
                            /\ job'[g].state \in {"absent", "running"}
    BY <1>0, <1>2, <1>7, <2>1 DEF PollFits
  <2>5. \A q \in Presses : run'[q].pc \in Working \cup {"hide"} => run'[q] = run[q]
    BY <1>5 DEF Holding, Acked
  <2>. QED
    BY <1>0, <2>1, <2>2, <2>3, <2>4, <2>5 DEF PollFits, Working
<1>12. PollSends'
  <2>1. SUFFICES ASSUME ~ durable, ~ RaisedPartly, NEW u \in Units
                 PROVE  /\ sent[u] <= 1
                        /\ sent[u] # 0 =>
                              /\ job'[0].state # "absent"
                              /\ run'[0].tok # 0 => row[run'[0].tok] \in {"open", "closed"}
                              /\ \A g \in Handlers :
                                    /\ run'[g].pc \notin {"deliver", "failing"}
                                    /\ run'[g].pc \in Sending => run'[g].got[u] \in Settled
    BY <1>9 DEF PollSends
  <2>2. run'[0].tok = run[0].tok
    BY <1>0, <1>1, <1>10, <2>1
  <2>3. sent[u] # 0 => h # 0 /\ run'[h].pc \in {"idle", "read"}
    BY <1>0, <1>1, <1>7, <2>1 DEF PollSends
  <2>4. sent[u] # 0 => job'[0].state # "absent"
    BY <1>0, <1>2, <2>1, <2>3 DEF PollSends
  <2>5. ASSUME sent[u] # 0, NEW g \in Handlers
        PROVE  /\ run'[g].pc \notin {"deliver", "failing"}
               /\ run'[g].pc \in Sending => run'[g].got[u] \in Settled
    <3>1. CASE g = h
      BY <2>3, <2>5, <3>1 DEF Sending
    <3>2. CASE g # h
      BY <1>0, <1>1, <2>1, <2>5, <3>2 DEF PollSends
    <3>. QED
      BY <3>1, <3>2
  <2>. QED
    BY <1>0, <2>1, <2>2, <2>4, <2>5 DEF PollSends
<1>13. PollCounts'
  <2>1. SUFFICES ASSUME ~ durable, NEW u \in Units PROVE sent[u] <= Cardinality(Senders(u)')
    BY DEF PollCounts
  <2>2. Senders(u) \subseteq Senders(u)'
    <3>1. h \notin Senders(u)
      BY <1>7, <2>1 DEF Senders
    <3>. QED
      BY <1>1, <1>2, <3>1 DEF Senders, Idle, At
  <2>3. IsFiniteSet(Senders(u)')
    <3>1. IsFiniteSet(Handlers)
      BY RetryAssumption, FS_AddElement DEF Handlers
    <3>. QED
      BY <3>1, FS_Subset DEF Senders
  <2>4. sent[u] <= Cardinality(Senders(u))
    BY <1>0, <2>1 DEF PollCounts
  <2>5. /\ Cardinality(Senders(u)) <= Cardinality(Senders(u)')
        /\ Cardinality(Senders(u)) \in Nat /\ Cardinality(Senders(u)') \in Nat
    BY <2>2, <2>3, FS_Subset, FS_CardinalityType
  <2>. QED
    BY <1>0, <2>4, <2>5
<1>14. ChainFits'
  <2>1. SUFFICES ASSUME durable PROVE ChainFits'
    BY DEF ChainFits
  <2>2. \A k : Linked(k)' <=> Linked(k)
    BY <1>2 DEF Linked
  <2>3. \A g \in Handlers : Unsafe(job[g])' <=> Unsafe(job[g])
    BY <1>2 DEF Unsafe
  <2>4. job[h].next = NoJob
    BY <1>0, <2>1 DEF ChainFits, Superseded
  <2>5. \A g \in Handlers : Superseded(g)' <=> Superseded(g)
    <3>1. ~ Superseded(h) /\ ~ Superseded(h)'
      BY <1>2, <2>4 DEF Superseded
    <3>2. \A g \in Handlers : g # h => (Superseded(g)' <=> Superseded(g))
      BY <1>2, <2>3 DEF Superseded
    <3>. QED
      BY <3>1, <3>2
  <2>6. \A f, g \in Handlers : run'[f].pc # "idle" /\ run'[g].pc # "idle" => f = g
    BY <1>1, <2>1
  <2>7. \A t \in Tokens : saved[t] # Gone => saved[t] \in Handlers /\ Linked(saved[t])
    BY <1>0, <2>1 DEF ChainFits
  <2>8. (\A t \in Tokens : saved[t] # Gone => saved[t] \in Handlers /\ Linked(saved[t]))'
    <3>1. ASSUME NEW t \in Tokens, saved[t] # Gone
          PROVE  saved[t] \in Handlers /\ \E k \in Handlers : k = saved[t] /\ Linked(k)'
      BY <2>2, <2>7, <3>1
    <3>. QED
      BY <3>1 DEF Linked
  <2>9. (\A q \in Presses : run[q].pc \in {"read", "claimed", "checked"} =>
            run[q].snap \in Handlers /\ Linked(run[q].snap))'
    <3>1. ASSUME NEW q \in Presses, run'[q].pc \in {"read", "claimed", "checked"}
          PROVE  run'[q].snap \in Handlers /\ \E k \in Handlers : k = run'[q].snap /\ Linked(k)'
      <4>1. q = h /\ run'[q] = r
        BY <1>0, <1>1, <2>1, <3>1
      <4>2. r.pc = "read" /\ r.tok \in Tokens
        BY <1>0, <3>1, <4>1 DEF RetryType
      <4>3. r.snap \in Handlers /\ \E k \in Handlers : k = r.snap /\ Linked(k)
        BY <1>0, <2>7, <4>1, <4>2
      <4>. QED
        BY <2>2, <4>1, <4>3
    <3>. QED
      BY <3>1 DEF Linked
  <2>10. ASSUME NEW g \in Handlers,
                run'[g].pc \in Working \cup {"checked", "saved", "ready", "hide"}
         PROVE  Linked(g)'
    <3>1. g = h /\ run'[g] = r
      BY <1>1, <2>1, <2>10 DEF Working, Sending
    <3>2. h = 0
      BY <2>10, <3>1 DEF Working, Sending
    <3>. QED
      BY <3>1, <3>2 DEF Linked
  <2>11. \A j \in Handlers : Unsafe(job[j])' => Linked(j)'
    BY <1>0, <2>1, <2>2, <2>3 DEF ChainFits
  <2>12. \A j \in Handlers : job'[j].next # NoJob => Superseded(j)'
    BY <1>0, <1>2, <2>1, <2>5 DEF ChainFits
  <2>13. \A j, k \in Handlers :
          Linked(j)' /\ Linked(k)' /\ ~ Superseded(j)' /\ ~ Superseded(k)' => j = k
    BY <1>0, <2>1, <2>2, <2>5 DEF ChainFits
  <2>. QED
    BY <2>6, <2>8, <2>9, <2>10, <2>11, <2>12, <2>13 DEF ChainFits
<1>15. SendsFit'
  <2>1. \A g \in Handlers, u \in Units : (Noted(g, u) => Noted(g, u)')
    BY <1>1, <1>2 DEF Noted
  <2>2. \A g \in Handlers, u \in Units : Current(g, u)' => Current(g, u) /\ run'[g] = run[g]
    BY <1>1 DEF Current
  <2>. QED
    BY <1>0, <1>2, <2>1, <2>2 DEF SendsFit
<1>. QED
  BY <1>3, <1>4, <1>6, <1>11, <1>12, <1>13, <1>14, <1>15 DEF RetryInv

(* The first request starts, and a button is pressed.                        *)
LEMMA StartsKeep ==
  ASSUME RetryInv, StartRequest \/ \E p \in Presses, t \in Tokens : Read(p, t)
  PROVE  RetryInv'
<1>0. /\ RetryType /\ (\A g \in Handlers : HandlerFits(g))
      /\ job \in [Handlers -> JobType] /\ run \in [Handlers -> RunType]
      /\ saved \in [Tokens -> Handlers \cup {NoJob, Gone}]
      /\ 0 \in Handlers /\ \A q \in Presses : q \in Handlers /\ q # 0
  BY InvFacts
<1>1. CASE StartRequest
  <2>. DEFINE r == [Rest EXCEPT !.pc = "deliver"]
  <2>1. /\ r \in RunType /\ r.pc = "deliver" /\ r.tok = 0 /\ r.got = Untried
        /\ r.pass = "none" /\ ~ r.partly
    BY RetryAssumption DEF Rest, RunType, Phases, Handlers, Untried
  <2>2. /\ Free(0) /\ run' = [run EXCEPT ![0] = r]
        /\ job' = [job EXCEPT ![0].state = "running"]
        /\ UNCHANGED <<durable, saved, active, finished, row, shown, pressable, sent, cached,
                       crashes, faults>>
        /\ \/ job[0].state = "absent" /\ run[0] = Rest
           \/ durable /\ job[0].state = "checkpointed"
    BY <1>1 DEF StartRequest, memory, chat, limits
  <2>. HIDE DEF r
  <2>. QED
    BY <1>0, <2>1, <2>2, BeginsKeeps
<1>2. ASSUME NEW p \in Presses, NEW t \in Tokens, Read(p, t)
      PROVE  RetryInv'
  <2>0. /\ Free(p) /\ t \in pressable
        /\ \/ job[p].state = "absent" /\ run[p] = Rest
           \/ durable /\ job[p].state = "checkpointed"
        /\ UNCHANGED <<durable, saved, active, finished, row, shown, pressable, sent, cached,
                       crashes, faults>>
    BY <1>0, <1>2 DEF Read, memory, chat, limits, HandlerFits
  <2>1. CASE t \in finished \/ saved[t] = Gone
    <3>. DEFINE r == [Rest EXCEPT !.tok = t]
    <3>1. /\ r \in RunType /\ r.pc = "idle" /\ r.tok = t /\ r.got = Untried
          /\ r.pass = "none" /\ ~ r.partly
      BY RetryAssumption DEF Rest, RunType, Phases, Handlers, Untried
    <3>2. PICK s \in {"running", "failed", "completed"} :
             /\ s = "running" \/ durable
             /\ Closed([job[p] EXCEPT !.state = "running"], FALSE) = [job[p] EXCEPT !.state = s]
      BY <1>0 DEF Closed, JobType
    <3>3. run' = [run EXCEPT ![p] = r] /\ job' = [job EXCEPT ![p].state = s]
      BY <1>0, <1>2, <2>1, <3>2 DEF Read
    <3>. HIDE DEF r
    <3>. QED
      BY <1>0, <2>0, <3>1, <3>2, <3>3, BeginsKeeps
  <2>2. CASE ~ (t \in finished \/ saved[t] = Gone)
    <3>. DEFINE r == [Rest EXCEPT !.pc = "read", !.tok = t, !.snap = saved[t]]
    <3>1. /\ r \in RunType /\ r.pc = "read" /\ r.tok = t /\ r.got = Untried
          /\ r.pass = "none" /\ ~ r.partly /\ r.snap = saved[t]
      BY <1>0, RetryAssumption DEF Rest, RunType, Phases, Handlers, Untried
    <3>2. run' = [run EXCEPT ![p] = r] /\ job' = [job EXCEPT ![p].state = "running"]
      BY <1>2, <2>2 DEF Read
    <3>. HIDE DEF r
    <3>. QED
      BY <1>0, <2>0, <2>2, <3>1, <3>2, BeginsKeeps
  <2>. QED
    BY <2>1, <2>2
<1>. QED
  BY <1>1, <1>2

(* Polling mode: the request has one token, and one handler of it delivers.  *)
LEMMA OneSender ==
  ASSUME RetryInv, ~ durable, NEW h \in Handlers, run[h].pc \in Working
  PROVE  /\ \A g \in Handlers : run[g].pc \in Working => g = h
         /\ job[0].state # "absent"
         /\ run[0].tok # 0 => row[run[0].tok] = "open"
<1>0. /\ (\A g \in Handlers : HandlerFits(g)) /\ PollFits /\ ClaimsFit
      /\ 0 \in Handlers /\ 0 \notin Tokens
      /\ \A g \in Handlers : g # 0 => g \in Presses
  BY InvFacts
<1>1. \A g \in Handlers : run[g].pc \in Working => run[g].pc # "idle" /\ run[g].pc \in Holding
  BY DEF Holding, Acked, Working, Sending
<1>2. \A g \in Handlers : g # 0 /\ run[g].pc \in Working =>
         run[0].tok = run[g].tok /\ run[g].tok # 0 /\ row[run[g].tok] = "open"
  <2>1. ASSUME NEW g \in Handlers, g # 0, run[g].pc \in Working
        PROVE  run[0].tok = run[g].tok /\ run[g].tok # 0 /\ row[run[g].tok] = "open"
    <3>1. run[g].tok \in Tokens /\ run[0].tok = run[g].tok
      BY <1>1, <2>1, PressToken
    <3>. QED
      BY <1>0, <2>1, <3>1 DEF PollFits
  <2>. QED
    BY <2>1
<1>3. run[0].pc \in Working => run[0].tok = 0 /\ job[0].state # "absent"
  <2>1. HandlerFits(0)
    BY <1>0
  <2>. QED
    BY <2>1 DEF HandlerFits, Working, Sending, Rest
<1>4. run[0].tok # 0 => job[0].state # "absent"
  <2>1. HandlerFits(0)
    BY <1>0
  <2>. QED
    BY <2>1 DEF HandlerFits, Rest
<1>5. \A g \in Handlers : g # 0 /\ h # 0 /\ run[g].pc \in Working => g = h
  BY <1>0, <1>1, <1>2 DEF ClaimsFit
<1>. QED
  BY <1>0, <1>2, <1>3, <1>4, <1>5

(* With jobs: a unit that a handler is about to send, nobody sent.           *)
LEMMA SendsOnce ==
  ASSUME RetryInv, durable, NEW h \in Handlers, NEW u \in Units,
         run[h].pc = "pass", run[h].got[u] \notin Settled
  PROVE  sent[u] = 0 /\ Linked(h) /\ ~ Superseded(h)
<1>0. /\ HandlerFits(h) /\ ChainFits /\ SendsFit /\ sent \in [Units -> Nat]
  BY InvFacts
<1>1. Linked(h) /\ ~ Superseded(h)
  BY <1>0 DEF ChainFits, Working, Sending, HandlerFits, Superseded
<1>2. job[h].item[u] \in {"none", "failed"}
  BY <1>0 DEF SendsFit, Current
<1>3. \A g \in Handlers : Noted(g, u) => g = h
  <2>1. ASSUME NEW g \in Handlers, Noted(g, u) PROVE g = h
    <3>1. Unsafe(job[g])
      BY <2>1 DEF Noted, Unsafe
    <3>2. Linked(g) /\ ~ Superseded(g)
      BY <1>0, <3>1 DEF ChainFits, Superseded
    <3>. QED
      BY <1>0, <1>1, <3>2 DEF ChainFits
  <2>. QED
    BY <2>1
<1>4. ~ Noted(h, u)
  BY <1>2 DEF Noted
<1>5. sent[u] # 0 => \E g \in Handlers : Noted(g, u)
  BY <1>0 DEF SendsFit
<1>. QED
  BY <1>0, <1>1, <1>3, <1>4, <1>5

(* A unit is sent: nobody has sent it before, and its receipt says so.       *)
LEMMA SendKeeps ==
  ASSUME RetryInv, NEW h \in Handlers, NEW u \in Units, NEW v \in Outcomes, Send(h, u, v)
  PROVE  RetryInv'
<1>0. /\ RetryType /\ (\A g \in Handlers : HandlerFits(g)) /\ ClaimsFit /\ ButtonsFit
      /\ PollFits /\ PollSends /\ PollCounts /\ ChainFits /\ SendsFit
      /\ job \in [Handlers -> JobType] /\ run \in [Handlers -> RunType]
      /\ sent \in [Units -> Nat]
      /\ 0 \in Handlers /\ 0 \notin Tokens
      /\ \A q \in Presses : q \in Handlers /\ q # 0
  BY InvFacts
<1>1. /\ run[h].pc = "pass" /\ u \in run[h].todo /\ run[h].got[u] \notin Settled
      /\ job[h].state = "running"
      /\ UNCHANGED <<durable, saved, active, finished, row, shown, pressable, crashes, faults>>
  <2>1. /\ run[h].pc = "pass" /\ u \in run[h].todo
        /\ UNCHANGED <<durable, saved, active, finished, row, shown, pressable, crashes, faults>>
    BY DEF Send, At, memory, limits
  <2>2. HandlerFits(h)
    BY <1>0
  <2>. QED
    BY <2>1, <2>2 DEF HandlerFits
<1>2. PICK r \in RunType :
         /\ run' = [run EXCEPT ![h] = r]
         /\ r.pc = IF durable THEN "record" ELSE "pass"
         /\ r.got = [run[h].got EXCEPT ![u] = v]
         /\ r.todo = run[h].todo \ {u} /\ r.unit = IF durable THEN {u} ELSE {}
         /\ r.tok = run[h].tok /\ r.snap = run[h].snap /\ r.pass = run[h].pass
         /\ r.partly = run[h].partly
  <2>. DEFINE r == [run[h] EXCEPT !.pc = IF durable THEN "record" ELSE @, !.got[u] = v,
                                 !.todo = @ \ {u}, !.unit = IF durable THEN {u} ELSE {}]
  <2>1. run' = [run EXCEPT ![h] = r]
    BY <1>0 DEF Send
  <2>2. run[h] \in RunType
    BY <1>0
  <2>3. /\ r.pc = IF durable THEN "record" ELSE "pass"
        /\ r.got = [run[h].got EXCEPT ![u] = v]
        /\ r.todo = run[h].todo \ {u} /\ r.unit = IF durable THEN {u} ELSE {}
        /\ r.tok = run[h].tok /\ r.snap = run[h].snap /\ r.pass = run[h].pass
        /\ r.partly = run[h].partly
    BY <1>1, <2>2 DEF RunType
  <2>4. /\ [run[h].got EXCEPT ![u] = v] \in [Units -> Outcomes \cup {"none"}]
        /\ run[h].todo \ {u} \in SUBSET Units /\ (IF durable THEN {u} ELSE {}) \in SUBSET Units
    BY <2>2 DEF RunType
  <2>5. r \in RunType
    BY <1>1, <2>2, <2>4 DEF RunType, Phases
  <2>. HIDE DEF r
  <2>. QED
    BY <2>1, <2>3, <2>5
<1>3. /\ run'[h] = r /\ \A g \in Handlers : g # h => run'[g] = run[g]
      /\ run' \in [Handlers -> RunType]
      /\ r.got[u] = v /\ \A x \in Units : x # u => r.got[x] = run[h].got[x]
  BY <1>0, <1>2 DEF RunType
<1>4. /\ \A x \in Units : x # u => sent'[x] = sent[x]
      /\ sent'[u] = sent[u] \/ (sent'[u] = sent[u] + 1 /\ v \in Settled)
      /\ sent' \in [Units -> Nat]
      /\ cached' \subseteq Units
  <2>1. \/ v # "failed" /\ sent' = [sent EXCEPT ![u] = @ + 1]
        \/ v # "success" /\ UNCHANGED sent
    BY DEF Send
  <2>2. cached' \subseteq Units
    BY <1>0 DEF Send, RetryType, Outcomes
  <2>. QED
    BY <1>0, <2>1, <2>2 DEF Outcomes, Settled
<1>5. /\ job' \in [Handlers -> JobType]
      /\ \A g \in Handlers : g # h => job'[g] = job[g]
      /\ job'[h].state = job[h].state /\ job'[h].next = job[h].next
      /\ ~ durable => job' = job
      /\ durable => job'[h].item[u] = "open"
      /\ \A x \in Units : x # u => job'[h].item[x] = job[h].item[x]
  <2>1. CASE durable
    <3>1. job' = [job EXCEPT ![h].item[u] = "open"] /\ job[h] \in JobType
      BY <1>0, <2>1 DEF Send
    <3>2. job'[h] = [job[h] EXCEPT !.item = [@ EXCEPT ![u] = "open"]]
      BY <1>0, <3>1
    <3>3. [job[h].item EXCEPT ![u] = "open"] \in [Units -> Outcomes \cup {"none", "open"}]
      BY <3>1 DEF JobType
    <3>4. job'[h] \in JobType
      BY <3>1, <3>2, <3>3 DEF JobType
    <3>. QED
      BY <1>0, <2>1, <3>1, <3>2, <3>4 DEF JobType
  <2>2. CASE ~ durable
    BY <1>0, <2>2 DEF Send
  <2>. QED
    BY <2>1, <2>2
<1>6. RetryType'
  BY <1>0, <1>1, <1>3, <1>4, <1>5 DEF RetryType
<1>7. \A g \in Handlers : HandlerFits(g)'
  <2>1. HandlerFits(h)'
    <3>1. HandlerFits(h)
      BY <1>0
    <3>2. \A x \in run'[h].todo : run'[h].got[x] \notin Settled
      BY <1>0, <1>1, <1>2, <1>3, <3>1 DEF HandlerFits, RunType
    <3>3. run'[h].pc = "record" =>
             durable' /\ \E x \in Units : run'[h].unit = {x} /\ run'[h].got[x] \in Outcomes
      BY <1>1, <1>2, <1>3
    <3>4. run'[h].pc \in {"pass", "record"}
      BY <1>2, <1>3
    <3>. QED
      BY <1>1, <1>2, <1>3, <1>5, <3>1, <3>2, <3>3, <3>4 DEF HandlerFits, Before, Sending
  <2>2. ASSUME NEW g \in Handlers, g # h PROVE HandlerFits(g)'
    BY <1>0, <1>1, <1>3, <1>5, <2>2 DEF HandlerFits
  <2>. QED
    BY <2>1, <2>2
<1>8. \A g \in Handlers : /\ run'[g].tok = run[g].tok /\ run'[g].snap = run[g].snap
                          /\ run'[g].partly = run[g].partly
                          /\ g = h \/ run'[g].pc = run[g].pc
  BY <1>2, <1>3
<1>9. run[h].pc \in Working /\ run'[h].pc \in Sending /\ run[h].pc # "idle"
  BY <1>1, <1>2, <1>3 DEF Working, Sending
<1>10. ClaimsFit' /\ ButtonsFit'
  <2>1. \A g \in Handlers : /\ run'[g].pc \in Holding <=> run[g].pc \in Holding
                            /\ run'[g].pc \in Acked <=> run[g].pc \in Acked
                            /\ run'[g].pc \in {"forget", "hide"} <=> run[g].pc \in {"forget", "hide"}
    <3>1. /\ run'[h].pc \in Holding /\ run[h].pc \in Holding
          /\ run'[h].pc \in Acked /\ run[h].pc \in Acked
          /\ run'[h].pc \notin {"forget", "hide"} /\ run[h].pc \notin {"forget", "hide"}
      BY <1>1, <1>9 DEF Holding, Acked, Working, Sending
    <3>. QED
      BY <1>8, <3>1
  <2>2. ClaimsFit'
    BY <1>0, <1>1, <1>8, <2>1 DEF ClaimsFit
  <2>3. ButtonsFit'
    BY <1>0, <1>1, <1>8, <2>1 DEF ButtonsFit
  <2>. QED
    BY <2>2, <2>3
<1>11. PollFits'
  <2>1. SUFFICES ASSUME ~ durable PROVE PollFits'
    BY <1>1 DEF PollFits
  <2>2. \A g \in Handlers : run'[g].pc = run[g].pc
    BY <1>1, <1>2, <1>3, <2>1
  <2>. QED
    BY <1>0, <1>1, <1>5, <1>8, <2>1, <2>2 DEF PollFits
<1>12. RaisedPartly' <=> RaisedPartly
  BY <1>8 DEF RaisedPartly
<1>13. PollSends'
  <2>1. SUFFICES ASSUME ~ durable, ~ RaisedPartly, NEW x \in Units
                 PROVE  /\ sent'[x] <= 1
                        /\ sent'[x] # 0 =>
                              /\ job[0].state # "absent"
                              /\ run[0].tok # 0 => row[run[0].tok] \in {"open", "closed"}
                              /\ \A g \in Handlers :
                                    /\ run'[g].pc \notin {"deliver", "failing"}
                                    /\ run'[g].pc \in Sending => run'[g].got[x] \in Settled
    BY <1>0, <1>1, <1>5, <1>8, <1>12 DEF PollSends
  <2>2. run'[h].pc = "pass"
    BY <1>2, <1>3, <2>1
  <2>3. CASE x = u
    <3>1. sent[u] = 0
      BY <1>1, <2>1, SentNothing DEF Sending
    <3>2. sent'[u] <= 1 /\ (sent'[u] # 0 => v \in Settled)
      BY <1>4, <3>1
    <3>3. /\ \A g \in Handlers : run[g].pc \in Working => g = h
          /\ job[0].state # "absent"
          /\ run[0].tok # 0 => row[run[0].tok] = "open"
      BY <1>9, <2>1, OneSender
    <3>4. \A g \in Handlers : g # h => run'[g].pc \notin Working
      BY <1>3, <3>3
    <3>. QED
      BY <1>3, <2>2, <2>3, <3>2, <3>3, <3>4 DEF Working
  <2>4. CASE x # u
    <3>1. \A g \in Handlers : run'[g].got[x] = run[g].got[x] /\ run'[g].pc = run[g].pc
      BY <1>1, <1>3, <2>2, <2>4
    <3>. QED
      BY <1>0, <1>4, <2>1, <2>4, <3>1 DEF PollSends
  <2>. QED
    BY <2>3, <2>4
<1>14. PollCounts'
  <2>1. SUFFICES ASSUME ~ durable, NEW x \in Units PROVE sent'[x] <= Cardinality(Senders(x)')
    BY <1>1 DEF PollCounts
  <2>2. IsFiniteSet(Handlers)
    BY RetryAssumption, FS_AddElement DEF Handlers
  <2>3. IsFiniteSet(Senders(x)) /\ IsFiniteSet(Senders(x)')
    BY <2>2, FS_Subset DEF Senders
  <2>4. sent[x] <= Cardinality(Senders(x)) /\ Cardinality(Senders(x)) \in Nat
        /\ Cardinality(Senders(x)') \in Nat
    BY <1>0, <2>1, <2>3, FS_CardinalityType DEF PollCounts
  <2>5. run'[h].pc = "pass" /\ job' = job
    BY <1>2, <1>3, <1>5, <2>1
  <2>6. CASE x = u /\ sent'[u] # sent[u]
    <3>1. h \notin Senders(u)
      BY <1>1 DEF Senders, Idle, At
    <3>2. Senders(u) \cup {h} \subseteq Senders(u)'
      <4>1. h \in Senders(u)'
        BY <1>1, <1>3, <1>4, <2>5, <2>6 DEF Senders
      <4>2. \A g \in Senders(u) : g \in Senders(u)'
        BY <1>3, <2>5, <3>1 DEF Senders, Idle, At
      <4>. QED
        BY <4>1, <4>2
    <3>3. Cardinality(Senders(u) \cup {h}) = Cardinality(Senders(u)) + 1
      BY <2>3, <2>6, <3>1, FS_AddElement
    <3>4. Cardinality(Senders(u) \cup {h}) <= Cardinality(Senders(u)')
      BY <2>3, <2>6, <3>2, FS_Subset
    <3>. QED
      BY <1>0, <1>4, <2>4, <2>6, <3>3, <3>4
  <2>7. CASE x # u \/ sent'[u] = sent[u]
    <3>1. Senders(x) \subseteq Senders(x)'
      <4>1. SUFFICES ASSUME NEW g \in Senders(x) PROVE g \in Senders(x)'
        OBVIOUS
      <4>2. CASE g = h
        <5>1. x # u
          BY <1>1, <4>1, <4>2 DEF Senders, Idle, At
        <5>. QED
          BY <1>1, <1>3, <2>5, <4>1, <4>2, <5>1 DEF Senders, Idle, At
      <4>3. CASE g # h
        BY <1>3, <2>5, <4>1, <4>3 DEF Senders, Idle, At
      <4>. QED
        BY <4>2, <4>3
    <3>2. Cardinality(Senders(x)) <= Cardinality(Senders(x)')
      BY <2>3, <3>1, FS_Subset
    <3>3. sent'[x] = sent[x]
      BY <1>4, <2>7
    <3>. QED
      BY <1>0, <2>4, <3>2, <3>3
  <2>. QED
    BY <2>6, <2>7
<1>15. ASSUME durable PROVE sent[u] = 0 /\ Linked(h) /\ ~ Superseded(h)
  BY <1>1, <1>15, SendsOnce
<1>16. ChainFits'
  <2>1. SUFFICES ASSUME durable PROVE ChainFits'
    BY <1>1 DEF ChainFits
  <2>2. \A k : Linked(k)' <=> Linked(k)
    BY <1>5 DEF Linked
  <2>3. \A g \in Handlers : g # h => (Unsafe(job[g])' <=> Unsafe(job[g]))
    BY <1>5 DEF Unsafe
  <2>4. \A g \in Handlers : Superseded(g)' <=> Superseded(g)
    <3>1. ~ Superseded(h) /\ ~ Superseded(h)'
      BY <1>1, <1>5 DEF Superseded
    <3>2. \A g \in Handlers : g # h => (Superseded(g)' <=> Superseded(g))
      BY <1>5, <2>3 DEF Superseded
    <3>. QED
      BY <3>1, <3>2
  <2>5. \A g \in Handlers : run'[g].pc # "idle" => run[g].pc # "idle"
    BY <1>8, <1>9
  <2>6. \A f, g \in Handlers : run'[f].pc # "idle" /\ run'[g].pc # "idle" => f = g
    BY <1>0, <2>1, <2>5 DEF ChainFits
  <2>7. (\A t \in Tokens : saved[t] # Gone => saved[t] \in Handlers /\ Linked(saved[t]))'
    <3>1. ASSUME NEW t \in Tokens, saved[t] # Gone
          PROVE  saved[t] \in Handlers /\ \E k \in Handlers : k = saved[t] /\ Linked(k)'
      BY <1>0, <2>1, <2>2, <3>1 DEF ChainFits
    <3>. QED
      BY <1>1, <3>1 DEF Linked
  <2>8. (\A q \in Presses : run[q].pc \in {"read", "claimed", "checked"} =>
            run[q].snap \in Handlers /\ Linked(run[q].snap))'
    <3>1. ASSUME NEW q \in Presses, run'[q].pc \in {"read", "claimed", "checked"}
          PROVE  run'[q].snap \in Handlers /\ \E k \in Handlers : k = run'[q].snap /\ Linked(k)'
      <4>1. run'[q] = run[q]
        BY <1>0, <1>3, <1>9, <3>1 DEF Sending
      <4>. QED
        BY <1>0, <2>1, <2>2, <3>1, <4>1 DEF ChainFits
    <3>. QED
      BY <3>1 DEF Linked
  <2>9. ASSUME NEW g \in Handlers,
               run'[g].pc \in Working \cup {"checked", "saved", "ready", "hide"}
        PROVE  Linked(g)'
    <3>1. CASE g = h
      BY <1>15, <2>1, <2>2, <3>1
    <3>2. CASE g # h
      BY <1>0, <1>3, <2>1, <2>2, <2>9, <3>2 DEF ChainFits
    <3>. QED
      BY <3>1, <3>2
  <2>10. \A j \in Handlers : Unsafe(job[j])' => Linked(j)'
    BY <1>0, <1>15, <2>1, <2>2, <2>3 DEF ChainFits
  <2>11. \A j \in Handlers : job'[j].next # NoJob => Superseded(j)'
    BY <1>0, <1>5, <2>1, <2>4 DEF ChainFits
  <2>12. \A j, k \in Handlers :
          Linked(j)' /\ Linked(k)' /\ ~ Superseded(j)' /\ ~ Superseded(k)' => j = k
    BY <1>0, <2>1, <2>2, <2>4 DEF ChainFits
  <2>. QED
    BY <2>6, <2>7, <2>8, <2>9, <2>10, <2>11, <2>12 DEF ChainFits
<1>17. SendsFit'
  <2>1. SUFFICES ASSUME durable PROVE SendsFit'
    BY <1>1 DEF SendsFit
  <2>2. run'[h].pc = "record" /\ run'[h].unit = {u}
    BY <1>2, <1>3, <2>1
  <2>3. ASSUME NEW x \in Units
        PROVE  sent'[x] <= 1 /\ (sent'[x] # 0 => \E g \in Handlers : Noted(g, x)')
    <3>1. CASE x = u
      <4>1. sent'[u] <= 1 /\ (sent'[u] # 0 => v \in Settled)
        BY <1>4, <1>15, <2>1
      <4>2. v \in Settled => Noted(h, u)'
        BY <1>3, <1>5, <2>1 DEF Noted, Settled
      <4>. QED
        BY <3>1, <4>1, <4>2
    <3>2. CASE x # u
      <4>1. \A g \in Handlers : Noted(g, x) => Noted(g, x)'
        <5>1. Noted(h, x) => Noted(h, x)'
          BY <1>5, <2>2, <3>2 DEF Noted
        <5>2. \A g \in Handlers : g # h => (Noted(g, x) => Noted(g, x)')
          BY <1>3, <1>5 DEF Noted
        <5>. QED
          BY <5>1, <5>2
      <4>. QED
        BY <1>0, <1>4, <2>1, <3>2, <4>1 DEF SendsFit
    <3>. QED
      BY <3>1, <3>2
  <2>4. ASSUME NEW g \in Handlers, NEW x \in Units, Current(g, x)', run'[g].got[x] \notin Settled
        PROVE  job'[g].item[x] \in {"none", "failed"}
    <3>1. CASE g = h
      <4>1. x # u
        BY <2>2, <2>4, <3>1 DEF Current
      <4>2. Current(h, x) /\ run[h].got[x] \notin Settled
        BY <1>1, <1>3, <2>4, <3>1, <4>1 DEF Current
      <4>. QED
        BY <1>0, <1>5, <2>1, <3>1, <4>1, <4>2 DEF SendsFit
    <3>2. CASE g # h
      <4>1. Current(g, x) /\ run[g].got[x] \notin Settled
        BY <1>3, <2>4, <3>2 DEF Current
      <4>. QED
        BY <1>0, <1>5, <2>1, <3>2, <4>1 DEF SendsFit
    <3>. QED
      BY <3>1, <3>2
  <2>. QED
    BY <2>3, <2>4 DEF SendsFit
<1>. QED
  BY <1>6, <1>7, <1>10, <1>11, <1>13, <1>14, <1>16, <1>17 DEF RetryInv

(* The job's row of a unit that was sent is settled as its receipt says.     *)
LEMMA RecordKeeps ==
  ASSUME RetryInv, NEW h \in Handlers, Record(h)
  PROVE  RetryInv'
<1>0. /\ RetryType /\ (\A g \in Handlers : HandlerFits(g)) /\ ClaimsFit /\ ButtonsFit
      /\ ChainFits /\ SendsFit
      /\ job \in [Handlers -> JobType] /\ run \in [Handlers -> RunType]
      /\ \A q \in Presses : q \in Handlers /\ q # 0
  BY InvFacts
<1>1. /\ run[h].pc = "record" /\ durable /\ job[h].state = "running"
      /\ UNCHANGED <<durable, saved, active, finished, row, shown, pressable, sent, cached,
                     crashes, faults>>
  <2>1. /\ run[h].pc = "record"
        /\ UNCHANGED <<durable, saved, active, finished, row, shown, pressable, sent, cached,
                       crashes, faults>>
    BY DEF Record, At, memory, chat, limits
  <2>2. HandlerFits(h)
    BY <1>0
  <2>. QED
    BY <2>1, <2>2 DEF HandlerFits
<1>2. PICK u \in Units : run[h].unit = {u} /\ run[h].got[u] \in Outcomes
  <2>1. HandlerFits(h)
    BY <1>0
  <2>. QED
    BY <1>1, <2>1 DEF HandlerFits
<1>3. job' = [job EXCEPT ![h].item[u] = run[h].got[u]]
  BY <1>2 DEF Record
<1>4. /\ run'[h] = [run[h] EXCEPT !.pc = "pass", !.unit = {}] /\ run'[h] \in RunType
      /\ run'[h].pc = "pass" /\ run'[h].tok = run[h].tok /\ run'[h].got = run[h].got
      /\ run'[h].todo = run[h].todo /\ run'[h].partly = run[h].partly
      /\ \A g \in Handlers : g # h => run'[g] = run[g]
      /\ run' \in [Handlers -> RunType]
  <2>. DEFINE r == [run[h] EXCEPT !.pc = "pass", !.unit = {}]
  <2>1. run' = [run EXCEPT ![h] = r]
    BY <1>0 DEF Record
  <2>2. run[h] \in RunType
    BY <1>0
  <2>3. /\ r \in RunType /\ r.pc = "pass" /\ r.tok = run[h].tok /\ r.got = run[h].got
        /\ r.todo = run[h].todo /\ r.partly = run[h].partly
    BY <2>2 DEF RunType, Phases
  <2>4. run'[h] = r
    BY <1>0, <2>1
  <2>5. \A g \in Handlers : g # h => run'[g] = run[g]
    BY <1>0, <2>1
  <2>6. run' \in [Handlers -> RunType]
    BY <1>0, <2>1, <2>3
  <2>. QED
    BY <2>3, <2>4, <2>5, <2>6
<1>5. /\ job' \in [Handlers -> JobType]
      /\ \A g \in Handlers : g # h => job'[g] = job[g]
      /\ job'[h].state = "running" /\ job'[h].next = job[h].next
      /\ job'[h].item[u] = run[h].got[u]
      /\ \A x \in Units : x # u => job'[h].item[x] = job[h].item[x]
  <2>1. job[h] \in JobType
    BY <1>0
  <2>2. job'[h] = [job[h] EXCEPT !.item = [@ EXCEPT ![u] = run[h].got[u]]]
    BY <1>0, <1>3
  <2>3. [job[h].item EXCEPT ![u] = run[h].got[u]] \in [Units -> Outcomes \cup {"none", "open"}]
    BY <1>2, <2>1 DEF JobType
  <2>4. job'[h] \in JobType
    BY <2>1, <2>2, <2>3 DEF JobType
  <2>. QED
    BY <1>0, <1>1, <1>3, <2>1, <2>2, <2>4 DEF JobType
<1>6. RetryType'
  BY <1>0, <1>1, <1>4, <1>5 DEF RetryType
<1>7. \A g \in Handlers : HandlerFits(g)'
  <2>1. HandlerFits(h)'
    <3>1. HandlerFits(h)
      BY <1>0
    <3>. QED
      BY <1>1, <1>4, <1>5, <3>1 DEF HandlerFits, Before, Sending
  <2>2. ASSUME NEW g \in Handlers, g # h PROVE HandlerFits(g)'
    BY <1>0, <1>1, <1>4, <1>5, <2>2 DEF HandlerFits
  <2>. QED
    BY <2>1, <2>2
<1>8. \A g \in Handlers : run'[g].tok = run[g].tok /\ (g = h \/ run'[g] = run[g])
  BY <1>4
<1>9. run[h].pc \in Working /\ run'[h].pc \in Sending /\ run[h].pc # "idle"
  BY <1>1, <1>4 DEF Working, Sending
<1>10. ClaimsFit' /\ ButtonsFit'
  <2>1. \A g \in Handlers : /\ run'[g].pc \in Holding <=> run[g].pc \in Holding
                            /\ run'[g].pc \in Acked <=> run[g].pc \in Acked
                            /\ run'[g].pc \in {"forget", "hide"} <=> run[g].pc \in {"forget", "hide"}
    <3>1. /\ run'[h].pc \in Holding /\ run[h].pc \in Holding
          /\ run'[h].pc \in Acked /\ run[h].pc \in Acked
          /\ run'[h].pc \notin {"forget", "hide"} /\ run[h].pc \notin {"forget", "hide"}
      BY <1>1, <1>9 DEF Holding, Acked, Working, Sending
    <3>. QED
      BY <1>8, <3>1
  <2>2. ClaimsFit'
    BY <1>0, <1>1, <1>8, <2>1 DEF ClaimsFit
  <2>3. ButtonsFit'
    BY <1>0, <1>1, <1>8, <2>1 DEF ButtonsFit
  <2>. QED
    BY <2>2, <2>3
<1>11. PollFits' /\ PollSends' /\ PollCounts'
  BY <1>1 DEF PollFits, PollSends, PollCounts
<1>12. ChainFits'
  <2>2. \A k : Linked(k)' <=> Linked(k)
    BY <1>5 DEF Linked
  <2>3. \A g \in Handlers : g # h => (Unsafe(job[g])' <=> Unsafe(job[g]))
    BY <1>5 DEF Unsafe
  <2>4. \A g \in Handlers : Superseded(g)' <=> Superseded(g)
    <3>1. ~ Superseded(h) /\ ~ Superseded(h)'
      BY <1>1, <1>5 DEF Superseded
    <3>2. \A g \in Handlers : g # h => (Superseded(g)' <=> Superseded(g))
      BY <1>5, <2>3 DEF Superseded
    <3>. QED
      BY <3>1, <3>2
  <2>5. Linked(h)
    BY <1>0, <1>1, <1>9 DEF ChainFits
  <2>6. \A f, g \in Handlers : run'[f].pc # "idle" /\ run'[g].pc # "idle" => f = g
    BY <1>0, <1>1, <1>8, <1>9 DEF ChainFits
  <2>7. (\A t \in Tokens : saved[t] # Gone => saved[t] \in Handlers /\ Linked(saved[t]))'
    <3>1. ASSUME NEW t \in Tokens, saved[t] # Gone
          PROVE  saved[t] \in Handlers /\ \E k \in Handlers : k = saved[t] /\ Linked(k)'
      BY <1>0, <1>1, <2>2, <3>1 DEF ChainFits
    <3>. QED
      BY <1>1, <3>1 DEF Linked
  <2>8. (\A q \in Presses : run[q].pc \in {"read", "claimed", "checked"} =>
            run[q].snap \in Handlers /\ Linked(run[q].snap))'
    <3>1. ASSUME NEW q \in Presses, run'[q].pc \in {"read", "claimed", "checked"}
          PROVE  run'[q].snap \in Handlers /\ \E k \in Handlers : k = run'[q].snap /\ Linked(k)'
      <4>1. run'[q] = run[q]
        BY <1>0, <1>4, <3>1
      <4>. QED
        BY <1>0, <1>1, <2>2, <3>1, <4>1 DEF ChainFits
    <3>. QED
      BY <3>1 DEF Linked
  <2>9. ASSUME NEW g \in Handlers,
               run'[g].pc \in Working \cup {"checked", "saved", "ready", "hide"}
        PROVE  Linked(g)'
    <3>1. CASE g = h
      BY <2>2, <2>5, <3>1
    <3>2. CASE g # h
      BY <1>0, <1>1, <1>4, <2>2, <2>9, <3>2 DEF ChainFits
    <3>. QED
      BY <3>1, <3>2
  <2>10. \A j \in Handlers : Unsafe(job[j])' => Linked(j)'
    BY <1>0, <1>1, <2>2, <2>3, <2>5 DEF ChainFits
  <2>11. \A j \in Handlers : job'[j].next # NoJob => Superseded(j)'
    BY <1>0, <1>1, <1>5, <2>4 DEF ChainFits
  <2>12. \A j, k \in Handlers :
          Linked(j)' /\ Linked(k)' /\ ~ Superseded(j)' /\ ~ Superseded(k)' => j = k
    BY <1>0, <1>1, <2>2, <2>4 DEF ChainFits
  <2>. QED
    BY <2>6, <2>7, <2>8, <2>9, <2>10, <2>11, <2>12 DEF ChainFits
<1>13. SendsFit'
  <2>1. \A g \in Handlers, x \in Units : Noted(g, x) => Noted(g, x)'
    <3>1. \A x \in Units : Noted(h, x) => Noted(h, x)'
      <4>1. Noted(h, u) => Noted(h, u)'
        BY <1>1, <1>2, <1>4, <1>5 DEF Noted, Outcomes
      <4>2. \A x \in Units : x # u => (Noted(h, x) => Noted(h, x)')
        BY <1>4, <1>5 DEF Noted
      <4>. QED
        BY <4>1, <4>2
    <3>2. \A g \in Handlers, x \in Units : g # h => (Noted(g, x) => Noted(g, x)')
      BY <1>4, <1>5 DEF Noted
    <3>. QED
      BY <3>1, <3>2
  <2>2. ASSUME NEW g \in Handlers, NEW x \in Units, Current(g, x)', run'[g].got[x] \notin Settled
        PROVE  job'[g].item[x] \in {"none", "failed"}
    <3>1. CASE g = h /\ x = u
      BY <1>2, <1>4, <1>5, <2>2, <3>1 DEF Outcomes, Settled
    <3>2. CASE g = h /\ x # u
      <4>1. Current(h, x)
        BY <1>1, <1>2, <3>2 DEF Current
      <4>. QED
        BY <1>0, <1>1, <1>4, <1>5, <2>2, <3>2, <4>1 DEF SendsFit
    <3>3. CASE g # h
      <4>1. Current(g, x) /\ run[g].got[x] \notin Settled
        BY <1>4, <2>2, <3>3 DEF Current
      <4>. QED
        BY <1>0, <1>1, <1>5, <3>3, <4>1 DEF SendsFit
    <3>. QED
      BY <3>1, <3>2, <3>3
  <2>. QED
    BY <1>0, <1>1, <2>1, <2>2 DEF SendsFit
<1>. QED
  BY <1>6, <1>7, <1>10, <1>11, <1>12, <1>13 DEF RetryInv

(* A saved request expires.                                                  *)
LEMMA ExpireKeeps ==
  ASSUME RetryInv, NEW t \in Tokens, Expire(t)
  PROVE  RetryInv'
<1>0. /\ RetryType /\ (\A g \in Handlers : HandlerFits(g)) /\ ClaimsFit /\ ButtonsFit
      /\ PollFits /\ PollSends /\ PollCounts /\ ChainFits /\ SendsFit
      /\ saved \in [Tokens -> Handlers \cup {NoJob, Gone}]
  BY InvFacts
<1>1. /\ UNCHANGED <<durable, active, finished, row, job, run, shown, pressable, sent, cached, crashes>>
      /\ saved' = [saved EXCEPT ![t] = Gone] /\ faults' \in 0 .. MaxFaults
  BY <1>0, RetryAssumption DEF Expire, memory, store, chat, Fault, RetryType
<1>2. \A x \in Tokens : saved'[x] # Gone => saved'[x] = saved[x]
  BY <1>0, <1>1
<1>3. RetryType'
  BY <1>0, <1>1 DEF RetryType
<1>4. (\A g \in Handlers : HandlerFits(g)') /\ ClaimsFit' /\ ButtonsFit'
  <2>1. \A g \in Handlers : HandlerFits(g)'
    BY <1>0, <1>1 DEF HandlerFits
  <2>2. ClaimsFit' /\ ButtonsFit'
    BY <1>0, <1>1 DEF ClaimsFit, ButtonsFit
  <2>. QED
    BY <2>1, <2>2
<1>5. PollFits'
  BY <1>0, <1>1, <1>2 DEF PollFits
<1>6. PollSends' /\ PollCounts' /\ SendsFit'
  BY <1>0, <1>1 DEF PollSends, PollCounts, SendsFit, RaisedPartly, Senders, Idle, At, Noted, Current
<1>7. ChainFits'
  <2>1. /\ \A k : Linked(k)' <=> Linked(k)
        /\ \A j : Superseded(j)' <=> Superseded(j)
        /\ \A j : Unsafe(job[j])' <=> Unsafe(job[j])
    BY <1>1 DEF Linked, Superseded, Unsafe
  <2>2. durable => (\A x \in Tokens : saved[x] # Gone => saved[x] \in Handlers /\ Linked(saved[x]))'
    <3>1. ASSUME durable, NEW x \in Tokens, saved'[x] # Gone
          PROVE  saved'[x] \in Handlers /\ \E k \in Handlers : k = saved'[x] /\ Linked(k)'
      BY <1>0, <1>2, <2>1, <3>1 DEF ChainFits
    <3>. QED
      BY <3>1 DEF Linked
  <2>. QED
    BY <1>0, <1>1, <2>1, <2>2 DEF ChainFits
<1>. QED
  BY <1>3, <1>4, <1>5, <1>6, <1>7 DEF RetryInv

(* The process dies: its memory goes, and running or failed deliveries are   *)
(* queued again.                                                             *)
LEMMA CrashKeeps ==
  ASSUME RetryInv, Crash
  PROVE  RetryInv'
<1>0. /\ RetryType /\ (\A g \in Handlers : HandlerFits(g)) /\ ClaimsFit /\ ButtonsFit
      /\ PollFits /\ PollSends /\ PollCounts /\ ChainFits /\ SendsFit
      /\ job \in [Handlers -> JobType] /\ run \in [Handlers -> RunType]
      /\ sent \in [Units -> Nat]
      /\ 0 \in Handlers /\ \A q \in Presses : q \in Handlers /\ q # 0
  BY InvFacts
<1>1. /\ active' = {} /\ finished' = {} /\ crashes' \in 0 .. MaxCrashes
      /\ run' = [h \in Handlers |-> Over(h)]
      /\ UNCHANGED <<durable, saved, row, shown, pressable, sent, cached, faults>>
  BY <1>0, RetryAssumption DEF Crash, chat, RetryType
<1>2. \A h \in Handlers : /\ run'[h] = Over(h) /\ Over(h) \in RunType
                          /\ run'[h].pc = "idle" /\ run'[h].tok = run[h].tok
                          /\ run'[h].partly = run[h].partly
                          /\ run'[h].got = Untried /\ run'[h].pass = "none"
  BY <1>0, <1>1, RetryAssumption DEF Over, Rest, RunType, Phases, Handlers, Gone, NoJob, Untried
<1>3. /\ \A h \in Handlers : \/ job'[h] = job[h]
                             \/ /\ durable /\ job[h].state \in {"running", "failed"}
                                /\ job'[h] = [job[h] EXCEPT !.state = "checkpointed"]
      /\ job' = [h \in Handlers |-> job'[h]]
  BY DEF Crash
<1>4. \A h \in Handlers : /\ job'[h] \in JobType
                          /\ job'[h].item = job[h].item /\ job'[h].next = job[h].next
                          /\ job'[h].state = "absent" <=> job[h].state = "absent"
                          /\ job'[h].state = "completed" <=> job[h].state = "completed"
                          /\ ~ durable => job'[h] = job[h]
  BY <1>0, <1>3 DEF JobType
<1>5. job' \in [Handlers -> JobType] /\ run' \in [Handlers -> RunType]
  BY <1>1, <1>2, <1>3, <1>4
<1>6. RetryType'
  BY <1>0, <1>1, <1>5 DEF RetryType
<1>7. \A h \in Handlers : HandlerFits(h)'
  <2>1. SUFFICES ASSUME NEW h \in Handlers PROVE HandlerFits(h)'
    OBVIOUS
  <2>2. job'[h].state = "absent" => run'[h] = Rest
    <3>1. job[h].state = "absent" => run[h] = Rest
      BY <1>0 DEF HandlerFits
    <3>2. run[h] = Rest => Over(h) = Rest
      BY DEF Over, Rest
    <3>. QED
      BY <1>2, <1>4, <3>1, <3>2
  <2>. QED
    BY <1>0, <1>1, <1>2, <2>2 DEF HandlerFits
<1>8. ClaimsFit' /\ ButtonsFit'
  <2>1. \A q \in Presses : run'[q].pc \notin Holding \cup Acked
    BY <1>0, <1>2 DEF Holding, Acked, Working, Sending
  <2>2. ClaimsFit'
    BY <1>0, <1>1, <2>1 DEF ClaimsFit
  <2>3. ButtonsFit'
    BY <1>0, <1>1, <2>1 DEF ButtonsFit
  <2>. QED
    BY <2>2, <2>3
<1>9. RaisedPartly' <=> RaisedPartly
  BY <1>2 DEF RaisedPartly
<1>10. PollFits'
  BY <1>0, <1>1, <1>2, <1>4 DEF PollFits, Working, Sending
<1>11. PollSends'
  <2>1. \A h \in Handlers : run'[h].pc \notin Sending
    BY <1>2 DEF Sending
  <2>. QED
    BY <1>0, <1>1, <1>2, <1>4, <1>9, <2>1 DEF PollSends
<1>12. PollCounts'
  <2>1. SUFFICES ASSUME ~ durable, NEW u \in Units PROVE sent[u] <= Cardinality(Senders(u)')
    BY <1>1 DEF PollCounts
  <2>2. Senders(u) \subseteq Senders(u)'
    BY <1>2, <1>4, <2>1 DEF Senders, Idle, At
  <2>3. IsFiniteSet(Senders(u)')
    <3>1. IsFiniteSet(Handlers)
      BY RetryAssumption, FS_AddElement DEF Handlers
    <3>. QED
      BY <3>1, FS_Subset DEF Senders
  <2>4. sent[u] <= Cardinality(Senders(u))
    BY <1>0, <2>1 DEF PollCounts
  <2>5. /\ Cardinality(Senders(u)) <= Cardinality(Senders(u)')
        /\ Cardinality(Senders(u)) \in Nat /\ Cardinality(Senders(u)') \in Nat
    BY <2>2, <2>3, FS_Subset, FS_CardinalityType
  <2>. QED
    BY <1>0, <2>4, <2>5
<1>13. ChainFits'
  <2>1. SUFFICES ASSUME durable PROVE ChainFits'
    BY <1>1 DEF ChainFits
  <2>2. /\ \A k : Linked(k)' <=> Linked(k)
        /\ \A j \in Handlers : Unsafe(job[j])' <=> Unsafe(job[j])
    BY <1>4 DEF Linked, Unsafe
  <2>3. \A j \in Handlers : Superseded(j)' <=> Superseded(j)
    BY <1>4, <2>2 DEF Superseded
  <2>4. (\A x \in Tokens : saved[x] # Gone => saved[x] \in Handlers /\ Linked(saved[x]))'
    <3>1. ASSUME NEW x \in Tokens, saved'[x] # Gone
          PROVE  saved'[x] \in Handlers /\ \E k \in Handlers : k = saved'[x] /\ Linked(k)'
      BY <1>0, <1>1, <2>1, <2>2, <3>1 DEF ChainFits
    <3>. QED
      BY <3>1 DEF Linked
  <2>5. \A h \in Handlers : run'[h].pc \notin Working \cup {"checked", "saved", "ready", "hide"}
    BY <1>2 DEF Working, Sending
  <2>6. \A h \in Handlers : run'[h].pc \notin {"read", "claimed", "checked"}
    BY <1>2
  <2>. QED
    BY <1>0, <1>2, <1>4, <2>1, <2>2, <2>3, <2>4, <2>5, <2>6 DEF ChainFits
<1>14. SendsFit'
  <2>1. \A g \in Handlers, x \in Units : (Noted(g, x) => Noted(g, x)') /\ ~ Current(g, x)'
    BY <1>2, <1>4 DEF Noted, Current
  <2>. QED
    BY <1>0, <1>1, <2>1 DEF SendsFit
<1>. QED
  BY <1>6, <1>7, <1>8, <1>10, <1>11, <1>12, <1>13, <1>14 DEF RetryInv

-----------------------------------------------------------------------------
(* The invariant, and what follows from it. *)

(* Nothing has happened yet.                                                 *)
LEMMA InitRetry == Init => RetryInv
<1>1. SUFFICES ASSUME Init PROVE RetryInv
  OBVIOUS
<1>2. /\ NewJob \in JobType /\ Rest \in RunType /\ 0 \in Handlers
      /\ \A q \in Presses : q \in Handlers /\ q # 0
  BY RetryAssumption DEF NewJob, Rest, JobType, RunType, Phases, Handlers, Untried, Gone, NoJob
<1>3. RetryType
  BY <1>1, <1>2, RetryAssumption DEF Init, RetryType
<1>4. /\ \A h \in Handlers : run[h] = Rest /\ job[h] = NewJob
      /\ Rest.pc = "idle" /\ Rest.tok = 0 /\ Rest.got = Untried /\ Rest.pass = "none"
      /\ Rest.partly = FALSE /\ NewJob.state = "absent" /\ NewJob.next = NoJob
      /\ NewJob.item = Untried
  BY <1>1 DEF Init, Rest, NewJob
<1>5. \A h \in Handlers : HandlerFits(h)
  BY <1>4 DEF HandlerFits
<1>6. ClaimsFit /\ ButtonsFit
  <2>1. \A q \in Presses : run[q].pc \notin Holding
    BY <1>2, <1>4 DEF Holding, Acked, Working, Sending
  <2>. QED
    BY <1>1, <2>1 DEF Init, ClaimsFit, ButtonsFit
<1>7. PollFits /\ PollSends
  <2>1. PollFits
    BY <1>1, <1>2, <1>4 DEF Init, PollFits, Working, Sending
  <2>2. \A u \in Units : sent[u] = 0
    BY <1>1 DEF Init
  <2>3. PollSends
    BY <2>2 DEF PollSends
  <2>. QED
    BY <2>1, <2>3
<1>8. PollCounts
  <2>1. \A u \in Units : IsFiniteSet(Senders(u))
    <3>1. IsFiniteSet(Handlers)
      BY RetryAssumption, FS_AddElement DEF Handlers
    <3>. QED
      BY <3>1, FS_Subset DEF Senders
  <2>2. \A u \in Units : Cardinality(Senders(u)) \in Nat
    BY <2>1, FS_CardinalityType
  <2>. QED
    BY <1>1, <2>2 DEF Init, PollCounts
<1>9. \A j \in Handlers : ~ Unsafe(job[j]) /\ ~ Superseded(j) /\ job[j].next \notin Handlers
  BY <1>4, RetryAssumption DEF Handlers, NoJob, Unsafe, Superseded, Untried
<1>10. ChainFits
  <2>1. \A k \in Handlers : Linked(k) => k = 0
    BY <1>9 DEF Linked
  <2>2. \A t \in Tokens : saved[t] = Gone
    BY <1>1 DEF Init
  <2>3. \A h \in Handlers : run[h].pc \notin Working \cup {"read", "claimed", "checked", "saved", "ready", "hide"}
    BY <1>4 DEF Working, Sending
  <2>. QED
    BY <1>2, <1>4, <1>9, <2>1, <2>2, <2>3 DEF ChainFits
<1>11. SendsFit
  <2>1. \A u \in Units : sent[u] = 0
    BY <1>1 DEF Init
  <2>2. \A h \in Handlers : run[h].pc = "idle"
    BY <1>4
  <2>. QED
    BY <2>1, <2>2 DEF SendsFit, Current
<1>. QED
  BY <1>3, <1>5, <1>6, <1>7, <1>8, <1>10, <1>11 DEF RetryInv

(* No step of the handlers or of their surroundings breaks it.               *)
LEMMA NextRetry == RetryInv /\ [Next]_vars => RetryInv'
<1>1. SUFFICES ASSUME RetryInv, [Next]_vars PROVE RetryInv'
  OBVIOUS
<1>2. 0 \in Handlers /\ \A q \in Presses : q \in Handlers /\ q # 0
  BY <1>1, InvFacts
<1>3. CASE StartRequest \/ \E p \in Presses, t \in Tokens : Read(p, t)
  BY <1>1, <1>3, StartsKeep
<1>4. CASE OfferFirst
  BY <1>1, <1>2, <1>4, LeavesKeep
<1>5. CASE Crash
  BY <1>1, <1>5, CrashKeeps
<1>6. ASSUME NEW t \in Tokens, Expire(t) PROVE RetryInv'
  BY <1>1, <1>6, ExpireKeeps
<1>7. ASSUME NEW h \in Handlers, Step(h) PROVE RetryInv'
  <2>1. CASE Deliver(h)
    BY <1>1, <2>1, DeliverKeeps
  <2>2. CASE Open(h) \/ OpenRaises(h)
    BY <1>1, <2>2, OpenKeeps
  <2>3. CASE Record(h)
    BY <1>1, <2>3, RecordKeeps
  <2>4. CASE PassEnds(h)
    BY <1>1, <2>4, PassEndsKeeps
  <2>5. CASE \E u \in Units, v \in Outcomes : Send(h, u, v)
    BY <1>1, <2>5, SendKeeps
  <2>6. CASE Verdict(h)
    BY <1>1, <2>6, VerdictKeeps
  <2>7. CASE Failing(h)
    BY <1>1, <2>7, FailingKeeps, TokenKeeps
  <2>8. CASE Hide(h)
    BY <1>1, <2>8, HideKeeps
  <2>9. CASE Finish(h) \/ Forget(h)
    <3>1. run[h].pc \in {"finish", "forget"}
      BY <2>9 DEF Finish, Forget, At
    <3>2. h # 0
      BY <1>1, <3>1, InvFacts DEF HandlerFits, Sending
    <3>. QED
      BY <1>1, <2>9, <3>2, TokenKeeps
  <2>. QED
    BY <1>7, <2>1, <2>2, <2>3, <2>4, <2>5, <2>6, <2>7, <2>8, <2>9 DEF Step
<1>8. ASSUME NEW h \in Handlers, Breaks(h) \/ ForgetFails(h) PROVE RetryInv'
  BY <1>1, <1>8, LeavesKeep
<1>9. ASSUME NEW p \in Presses, Press(p) PROVE RetryInv'
  <2>1. CASE Claim(p)
    BY <1>1, <2>1, ClaimKeeps
  <2>2. CASE Prepare(p) \/ CheckToken(p)
    BY <1>1, <2>2, PrepareKeeps
  <2>3. CASE SaveAgain(p) \/ Acknowledge(p)
    BY <1>1, <1>2, <2>3, TokenKeeps
  <2>4. CASE BeginToken(p)
    BY <1>1, <2>4, BeginKeeps
  <2>5. CASE OfferAgain(p)
    BY <1>1, <2>5, OfferAgainKeeps
  <2>. QED
    BY <1>9, <2>1, <2>2, <2>3, <2>4, <2>5 DEF Press
<1>10. ASSUME NEW p \in Presses, Refuse(p) \/ AcknowledgeFails(p) PROVE RetryInv'
  BY <1>1, <1>2, <1>10, LeavesKeep
<1>11. CASE UNCHANGED vars
  <2>1. UNCHANGED <<durable, saved, shown, pressable, active, finished, row, job, run, cached, sent,
                    crashes, faults>>
    BY <1>11 DEF vars
  <2>2. /\ RetryType' /\ (\A h \in Handlers : HandlerFits(h)') /\ ClaimsFit' /\ ButtonsFit'
    BY <1>1, <2>1, InvFacts DEF RetryType, HandlerFits, ClaimsFit, ButtonsFit
  <2>3. PollFits' /\ PollSends' /\ PollCounts'
    BY <1>1, <2>1, InvFacts DEF PollFits, PollSends, PollCounts, RaisedPartly, Senders, Idle, At
  <2>4. ChainFits'
    BY <1>1, <2>1, InvFacts DEF ChainFits, Linked, Superseded, Unsafe
  <2>5. SendsFit'
    BY <1>1, <2>1, InvFacts DEF SendsFit, Noted, Current
  <2>. QED
    BY <2>2, <2>3, <2>4, <2>5 DEF RetryInv
<1>. QED
  BY <1>1, <1>3, <1>4, <1>5, <1>6, <1>7, <1>8, <1>9, <1>10, <1>11 DEF Next

(* The invariant holds for ever.                                             *)
LEMMA RetryInvariant == Spec => []RetryInv
<1>1. Init => RetryInv
  BY InitRetry
<1>2. RetryInv /\ [Next]_vars => RetryInv'
  BY NextRetry
<1>. QED
  BY <1>1, <1>2, PTL DEF Spec

(* on_retry and the deliveries it repeats: no unit reaches the chat twice,   *)
(* whatever is pressed, crashes or fails, but after a polling request raised *)
(* with a part of its cached units sent; and then as often as there were     *)
(* attempts, never more.                                                     *)
THEOREM RetriesSafe == Spec => []RetriesAreSafe
<1>1. RetryInv => RetriesAreSafe
  <2>1. SUFFICES ASSUME RetryInv PROVE TypeOK /\ RepeatsOnlyAfterPartialError
    BY DEF RetriesAreSafe
  <2>2. RetryType /\ PollSends /\ PollCounts /\ SendsFit /\ sent \in [Units -> Nat]
    BY <2>1, InvFacts
  <2>3. /\ IsFiniteSet(Handlers) /\ Cardinality(Handlers) = 1 + Cardinality(Presses)
        /\ Cardinality(Presses) \in Nat
    <3>1. IsFiniteSet(Presses) /\ 0 \notin Presses
      BY RetryAssumption
    <3>2. Cardinality(Presses) \in Nat
      BY <3>1, FS_CardinalityType
    <3>. QED
      BY <3>1, <3>2, FS_AddElement DEF Handlers
  <2>4. ASSUME NEW u \in Units PROVE sent[u] <= 1 + Cardinality(Presses)
    <3>1. CASE durable
      BY <2>2, <2>3, <3>1 DEF SendsFit
    <3>2. CASE ~ durable
      <4>1. sent[u] <= Cardinality(Senders(u))
        BY <2>2, <3>2 DEF PollCounts
      <4>2. /\ Cardinality(Senders(u)) <= Cardinality(Handlers)
            /\ Cardinality(Senders(u)) \in Nat
        BY <2>3, FS_Subset, FS_CardinalityType DEF Senders
      <4>. QED
        BY <2>2, <2>3, <4>1, <4>2
    <3>. QED
      BY <3>1, <3>2
  <2>5. TypeOK
    <3>1. sent \in [Units -> 0 .. 1 + Cardinality(Presses)]
      BY <2>2, <2>3, <2>4
    <3>. QED
      BY <2>2, <3>1 DEF RetryType, TypeOK, JobType, RunType
  <2>6. RepeatsOnlyAfterPartialError
    BY <2>2 DEF RepeatsOnlyAfterPartialError, PollSends, SendsFit
  <2>. QED
    BY <2>5, <2>6
<1>. QED
  BY <1>1, RetryInvariant, PTL

(* The button under a failed request tells the truth: no memory or row of    *)
(* its token refuses it, and in polling mode nothing of the request was sent *)
(* unless the request raised with a part sent.                               *)
THEOREM ButtonsTrue == Spec => []ButtonsAreTrue
<1>1. RetryInv => ButtonsAreTrue
  <2>1. SUFFICES ASSUME RetryInv PROVE ShownButtonWorks /\ ButtonMeansUnsent
    BY DEF ButtonsAreTrue
  <2>2. ButtonsFit /\ PollFits /\ PollSends /\ 0 \notin Tokens
    BY <2>1, InvFacts
  <2>3. ShownButtonWorks
    BY <2>2 DEF ShownButtonWorks, ButtonsFit
  <2>4. ASSUME ~ durable, ~ RaisedPartly, NEW t \in Tokens, shown[t], NEW u \in Units
        PROVE  sent[u] = 0
    <3>1. run[0].tok = t /\ t # 0 /\ row[t] \in {"none", "failed"}
      BY <2>2, <2>4 DEF PollFits, ButtonsFit
    <3>. QED
      BY <2>2, <2>4, <3>1 DEF PollSends
  <2>. QED
    BY <2>3, <2>4 DEF ButtonMeansUnsent
<1>. QED
  BY <1>1, RetryInvariant, PTL

=============================================================================
