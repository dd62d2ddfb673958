----------------------------- MODULE AtomicStore -----------------------------
(***************************************************************************)
(* What the store of persistence.cpp promises its callers: one payload     *)
(* that each Save replaces at one instant, or not at all, and that each    *)
(* read sees at one instant.  README: "Replacement is atomic."             *)
(***************************************************************************)
CONSTANTS
    Saver, Reader,
    Payload,
    NoPayload      \* no store file, and the payload of a call not made

VARIABLES
    stored,        \* the payload in the store
    saves,         \* the call to Save each saver is in
    reads          \* the call to Load or InspectStore each reader is in

vars == <<stored, saves, reads>>

Idle == [phase |-> "idle", payload |-> NoPayload]

Call(phase, payload) == [phase |-> phase, payload |-> payload]

Init ==
    /\ stored = NoPayload
    /\ saves = [s \in Saver |-> Idle]
    /\ reads = [r \in Reader |-> Idle]

Begin(s, p) ==
    /\ saves[s] = Idle
    /\ saves' = [saves EXCEPT ![s] = Call("pending", p)]
    /\ UNCHANGED <<stored, reads>>

Commit(s) ==
    /\ saves[s].phase = "pending"
    /\ stored' = saves[s].payload
    /\ saves' = [saves EXCEPT ![s].phase = "saved"]
    /\ UNCHANGED reads

Fail(s) ==
    /\ saves[s].phase = "pending"
    /\ saves' = [saves EXCEPT ![s].phase = "failed"]
    /\ UNCHANGED <<stored, reads>>

Return(s) ==
    /\ saves[s].phase \in {"saved", "failed"}
    /\ saves' = [saves EXCEPT ![s] = Idle]
    /\ UNCHANGED <<stored, reads>>

\* The payload a read returns is the one stored when it began.
BeginRead(r) ==
    /\ reads[r] = Idle
    /\ stored # NoPayload
    /\ reads' = [reads EXCEPT ![r] = Call("pending", stored)]
    /\ UNCHANGED <<stored, saves>>

EndRead(r) ==
    /\ reads[r].phase = "pending"
    /\ reads' = [reads EXCEPT ![r].phase = "read"]
    /\ UNCHANGED <<stored, saves>>

ReturnRead(r) ==
    /\ reads[r].phase # "idle"
    /\ reads' = [reads EXCEPT ![r] = Idle]
    /\ UNCHANGED <<stored, saves>>

\* A crash ends every save where it stands; the store keeps what it holds.
\* R are the readers that ended with the machine.
Crash(R) ==
    /\ saves' = [s \in Saver |-> Idle]
    /\ reads' = [r \in Reader |-> IF r \in R THEN Idle ELSE reads[r]]
    /\ UNCHANGED stored

Next ==
    \/ \E s \in Saver : \/ \E p \in Payload : Begin(s, p)
                        \/ Commit(s) \/ Fail(s) \/ Return(s)
    \/ \E r \in Reader : BeginRead(r) \/ EndRead(r) \/ ReturnRead(r)
    \/ \E R \in SUBSET Reader : Crash(R)

Spec == Init /\ [][Next]_vars
=============================================================================
