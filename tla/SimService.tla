----------------------------- MODULE SimService -----------------------------
(***************************************************************************)
(* What the simulation server promises, without threads, applications or   *)
(* files: it serves one simulation at a time, says truthfully whether it   *)
(* is busy and with what, and publishes, for that simulation only, results *)
(* of which each contains the one before, the last one at the end.         *)
(***************************************************************************)
EXTENDS SimTypes

CONSTANTS Hash, NoHash

VARIABLES
  entry,     \* the simulation requests are answered about, or NoHash
  producer,  \* the simulation that is still publishing, or NoHash
  have,      \* its jobs a result would contain now
  reply, pub \* the answer and the result given in this step

vars == <<entry, producer, have, reply, pub>>

NoReply  == [type |-> "NONE", hash |-> NoHash, ans |-> "NONE"]
NoResult == [hash |-> NoHash, status |-> "NONE", jobs |-> {}]

Quiet    == reply' = NoReply /\ pub' = NoResult
Answer(t, h, a) == reply' = [type |-> t, hash |-> h, ans |-> a] /\ pub' = NoResult
Publish(s, js)  == reply' = NoReply /\ pub' = [hash |-> producer, status |-> s, jobs |-> js]

Init ==
  /\ entry = NoHash /\ producer = NoHash /\ have = {}
  /\ reply = NoReply /\ pub = NoResult

\* A simulation begins only when the previous one publishes nothing more
Begin(h, t) ==
  /\ entry = NoHash /\ producer = NoHash
  /\ entry' = h /\ producer' = h /\ have' = {}
  /\ Answer(t, h, "ansSTARTING")

Busy(h, t) ==
  /\ \/ entry = h /\ Answer(t, h, "ansRUNNING")
     \/ entry \notin {h, NoHash} /\ Answer(t, h, "ansWAIT")
  /\ UNCHANGED <<entry, producer, have>>

\* Errors and the cleaning of the cache change nothing here; a test publishes
\* a result that belongs to no simulation
Aside(h, t) ==
  /\ \/ Answer(t, h, "ansERROR")
     \/ t = "CLEAR" /\ Answer(t, h, "ansOK")
     \/ reply' = [type |-> t, hash |-> h, ans |-> "ansDONE"]
        /\ pub' = [hash |-> NoHash, status |-> "SUCCESS", jobs |-> {}]
  /\ UNCHANGED <<entry, producer, have>>

Progress ==
  /\ producer # NoHash
  /\ have' \in {have \cup js : js \in SUBSET JobId}
  /\ Quiet
  /\ UNCHANGED <<entry, producer>>

Partial ==
  /\ producer # NoHash
  /\ Publish("RUNNING", have) \/ Publish("FAILURE", {})
  /\ UNCHANGED <<entry, producer, have>>

Final ==
  /\ producer # NoHash
  /\ Publish("SUCCESS", have) \/ Publish("FAILURE", {})
  /\ producer' = NoHash /\ have' = {}
  /\ UNCHANGED entry

\* The entry goes after the final result, or when STOP is answered, in which
\* case the simulation may go on publishing
Release ==
  /\ producer = NoHash /\ entry' = NoHash
  /\ Quiet
  /\ UNCHANGED <<producer, have>>

Stop(h) ==
  /\ Answer("STOP", h, "ansOK")
  /\ entry' = IF entry = h THEN NoHash ELSE entry
  /\ UNCHANGED <<producer, have>>

Crash ==
  /\ entry' = NoHash /\ producer' = NoHash /\ have' = {}
  /\ Quiet

Idle == Quiet /\ UNCHANGED <<entry, producer, have>>

Next ==
  \/ \E h \in Hash : \/ \E t \in ReqTypes : Begin(h, t) \/ Busy(h, t) \/ Aside(h, t)
                     \/ Stop(h)
  \/ Progress \/ Partial \/ Final \/ Release \/ Crash \/ Idle

Spec == Init /\ [][Next]_vars
=============================================================================
