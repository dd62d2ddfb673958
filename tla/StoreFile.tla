------------------------------ MODULE StoreFile ------------------------------
(***************************************************************************)
(* The store file of persistence.cpp: WriteFileAtomic and ReadFileBounded, *)
(* step by step, for threads that save at once (connection threads,        *)
(* Persist, Stop), for readers in other processes (fcrctl inspects the     *)
(* store), and for a crash of the process or a loss of power between any   *)
(* two steps.                                                              *)
(*                                                                         *)
(* A payload is the number of the registry state it was captured from.  A  *)
(* file holds two halves of a payload, the first with the header; a half   *)
(* that was not written is 0.  The digest of the header makes every file   *)
(* that mixes payloads unreadable.  All saves use one temporary name.      *)
(***************************************************************************)
EXTENDS Integers, FiniteSets

CONSTANTS
    Saver, Reader,
    Inode, NoInode,
    Windows,           \* the branch of the code that was compiled
    DurableFlush,      \* PersistenceConfig::durable_flush
    CreateIfMissing,   \* PersistenceConfig::create_if_missing
    Faults,            \* which calls may fail: "encode", "open", "write",
                       \* "flush", "replace", "power"
    MaxVersion         \* bound of the model on mutations of the registry

Half == {1, 2}

ASSUME StoreFileAssumption ==
    /\ NoInode \notin Inode
    /\ {Windows, DurableFlush, CreateIfMissing} \subseteq BOOLEAN
    /\ Faults \subseteq {"encode", "open", "write", "flush", "replace", "power"}
    /\ MaxVersion \in Nat \ {0}

VARIABLES
    up,              \* the coordinator's process runs
    current,         \* the registry state its threads capture
    latest,          \* the last number given to a registry state
    content,         \* the halves each inode holds
    durable,         \* ... and those that survive a loss of power
    temporary,       \* the inode of the temporary name
    target,          \* the inode of the store's name
    durableTarget,   \* ... and the one that survives a loss of power
    savers,          \* where each thread is in Save
    readers          \* where each reader is in ReadFileBounded

files == <<content, durable, temporary, target, durableTarget>>
vars == <<up, current, latest, files, savers, readers>>

NoPayload == 0
Torn == -1
EmptyRegistry == 1
Version == 0..MaxVersion

\* Mutant of Empty: what a truncated file holds is left undefined.
Undefined == [h \in Half |-> Torn]

Empty == [h \in Half |-> 0]

\* ParseHeader, the length test and the digest test of ReadStore.
Decode(halves) ==
    IF halves[1] # 0 /\ halves[2] = halves[1] THEN halves[1] ELSE Torn

Done == [pc |-> "idle", inode |-> NoInode, payload |-> NoPayload]

OpenBySaver(i) == i # NoInode /\ \E s \in Saver : savers[s].inode = i
OpenByReader(i) == i # NoInode /\ \E r \in Reader : readers[r].inode = i

Free(i) ==
    /\ i \notin {temporary, target, durableTarget}
    /\ ~OpenBySaver(i) /\ ~OpenByReader(i)

Init ==
    /\ up = TRUE
    /\ current = EmptyRegistry
    /\ latest = EmptyRegistry
    /\ content = [i \in Inode |-> Empty]
    /\ durable = [i \in Inode |-> Empty]
    /\ temporary = NoInode
    /\ target = NoInode
    /\ durableTarget = NoInode
    /\ savers = [s \in Saver |-> Done]
    /\ readers = [r \in Reader |-> Done]

-----------------------------------------------------------------------------
(* Save.                                                                   *)

\* Any change of the registry.
Mutate ==
    /\ up
    /\ latest < MaxVersion
    /\ latest' = latest + 1
    /\ current' = latest + 1
    /\ UNCHANGED <<up, files, savers, readers>>

At(s, pc) == savers[s].pc = pc

GoTo(s, pc) == savers' = [savers EXCEPT ![s].pc = pc]

Others == <<up, current, latest, readers>>

\* The payload is captured under the shared lock, and written without it.
Capture(s) ==
    /\ up
    /\ At(s, "idle")
    /\ savers' = [savers EXCEPT ![s] = [pc |-> "captured", inode |-> NoInode,
                                        payload |-> current]]
    /\ UNCHANGED <<Others, files>>

\* WriteStore refuses the configuration, or a payload over the size bound.
Refuse(s) ==
    /\ "encode" \in Faults
    /\ At(s, "captured")
    /\ GoTo(s, "failed")
    /\ UNCHANGED <<Others, files>>

\* CreateFileW without sharing is refused while another handle is open.
MayOpen == Windows => ~OpenBySaver(temporary)

\* An existing temporary file, of this save or another one, is truncated.
OpenTemporary(s) ==
    /\ At(s, "captured")
    /\ MayOpen
    /\ \E i \in Inode :
          /\ IF temporary = NoInode THEN Free(i) ELSE i = temporary
          /\ temporary' = i
          /\ content' = [content EXCEPT ![i] = Empty]
          /\ durable' = [durable EXCEPT ![i] = Empty]
          /\ savers' = [savers EXCEPT ![s].pc = "opened", ![s].inode = i]
    /\ UNCHANGED <<Others, target, durableTarget>>

OpenFails(s) ==
    /\ At(s, "captured")
    /\ ~MayOpen \/ "open" \in Faults
    /\ GoTo(s, "failed")
    /\ UNCHANGED <<Others, files>>

WriteHalf(s, h, from, to) ==
    /\ At(s, from)
    /\ content' = [content EXCEPT ![savers[s].inode][h] = savers[s].payload]
    /\ GoTo(s, to)
    /\ UNCHANGED <<Others, durable, temporary, target, durableTarget>>

\* The handle is closed before the temporary file is deleted.
WriteFails(s) ==
    /\ "write" \in Faults
    /\ At(s, "opened") \/ At(s, "half")
    /\ savers' = [savers EXCEPT ![s].pc = "discarding", ![s].inode = NoInode]
    /\ UNCHANGED <<Others, files>>

\* Mutant of FlushAndClose: the data is not flushed.
CloseUnflushed(s) ==
    /\ At(s, "written")
    /\ savers' = [savers EXCEPT ![s].pc = "closed", ![s].inode = NoInode]
    /\ UNCHANGED <<Others, files>>

\* The result of the flush is ignored.
FlushAndClose(s) ==
    /\ At(s, "written")
    /\ \E flushed \in IF "flush" \in Faults THEN BOOLEAN ELSE {TRUE} :
          durable' = IF DurableFlush /\ flushed
                     THEN [durable EXCEPT ![savers[s].inode] = content[savers[s].inode]]
                     ELSE durable
    /\ savers' = [savers EXCEPT ![s].pc = "closed", ![s].inode = NoInode]
    /\ UNCHANGED <<Others, content, temporary, target, durableTarget>>

\* rename needs the temporary name.  MoveFileExW also needs that nobody has
\* the temporary file open, and no reader the store: readers share only
\* reading.
MayReplace ==
    /\ temporary # NoInode
    /\ Windows => ~OpenBySaver(temporary) /\ ~OpenByReader(target)

\* MOVEFILE_WRITE_THROUGH makes the new name durable; rename does not, and
\* the directory is not flushed.
Replace(s) ==
    /\ At(s, "closed")
    /\ MayReplace
    /\ target' = temporary
    /\ durableTarget' = IF Windows THEN temporary ELSE durableTarget
    /\ temporary' = NoInode
    /\ GoTo(s, "saved")
    /\ UNCHANGED <<Others, content, durable>>

ReplaceFails(s) ==
    /\ At(s, "closed")
    /\ ~MayReplace \/ "replace" \in Faults
    /\ GoTo(s, "discarding")
    /\ UNCHANGED <<Others, files>>

\* Mutant of Discard: the store is deleted with the temporary file.
DiscardBoth(s) ==
    /\ At(s, "discarding")
    /\ temporary' = NoInode /\ target' = NoInode
    /\ GoTo(s, "failed")
    /\ UNCHANGED <<Others, content, durable, durableTarget>>

\* By name: on POSIX the file may be another saver's by now.
Discard(s) ==
    /\ At(s, "discarding")
    /\ temporary' = IF Windows /\ OpenBySaver(temporary)
                    THEN temporary ELSE NoInode
    /\ GoTo(s, "failed")
    /\ UNCHANGED <<Others, content, durable, target, durableTarget>>

Return(s) ==
    /\ At(s, "saved") \/ At(s, "failed")
    /\ savers' = [savers EXCEPT ![s] = Done]
    /\ UNCHANGED <<Others, files>>

Save(s) ==
    \/ Capture(s) \/ Refuse(s)
    \/ OpenTemporary(s) \/ OpenFails(s)
    \/ WriteHalf(s, 1, "opened", "half") \/ WriteHalf(s, 2, "half", "written")
    \/ WriteFails(s)
    \/ FlushAndClose(s)
    \/ Replace(s) \/ ReplaceFails(s) \/ Discard(s)
    \/ Return(s)

-----------------------------------------------------------------------------
(* Reading: Load at a start, and InspectStore in another process.          *)

ReaderAt(r, pc) == readers[r].pc = pc

OpenForRead(r) ==
    /\ ReaderAt(r, "idle")
    /\ target # NoInode
    /\ Windows => ~OpenBySaver(target)
    /\ readers' = [readers EXCEPT ![r] = [pc |-> "opened", inode |-> target,
                                          payload |-> NoPayload]]
    /\ UNCHANGED <<up, current, latest, files, savers>>

ReadFirst(r) ==
    /\ ReaderAt(r, "opened")
    /\ readers' = [readers EXCEPT ![r].pc = "half",
                                  ![r].payload = content[readers[r].inode][1]]
    /\ UNCHANGED <<up, current, latest, files, savers>>

\* The rest of the file is read, the handle closed and the whole decoded.
ReadSecond(r) ==
    /\ ReaderAt(r, "half")
    /\ readers' = [readers EXCEPT ![r] =
          [pc |-> "read", inode |-> NoInode,
           payload |-> Decode([content[@.inode] EXCEPT ![1] = readers[r].payload])]]
    /\ UNCHANGED <<up, current, latest, files, savers>>

ReturnRead(r) ==
    /\ ReaderAt(r, "read")
    /\ readers' = [readers EXCEPT ![r] = Done]
    /\ UNCHANGED <<up, current, latest, files, savers>>

Read(r) == OpenForRead(r) \/ ReadFirst(r) \/ ReadSecond(r) \/ ReturnRead(r)

-----------------------------------------------------------------------------
(* Failures of the process and of the machine.                             *)

\* The threads end where they are; the system closes their handles.
Crash ==
    /\ up
    /\ up' = FALSE
    /\ savers' = [s \in Saver |-> Done]
    /\ UNCHANGED <<current, latest, files, readers>>

\* Of what was not flushed anything may be lost.
PowerLoss ==
    /\ "power" \in Faults
    /\ up' = FALSE
    /\ savers' = [s \in Saver |-> Done]
    /\ readers' = [r \in Reader |-> Done]
    /\ \E t \in {target, durableTarget} : \E lost \in SUBSET Half :
          /\ target' = t
          /\ durableTarget' = t
          /\ content' = [i \in Inode |->
                           IF i = t THEN [h \in Half |-> IF h \in lost THEN durable[i][h]
                                                         ELSE content[i][h]]
                           ELSE content[i]]
          /\ durable' = content'
          /\ temporary' \in {temporary, NoInode} \ ({t} \ {NoInode})
    /\ UNCHANGED <<current, latest>>

\* ReadStore in a new process: a missing store may be created empty, one
\* that does not decode is refused and the coordinator does not start.
Start ==
    /\ ~up
    /\ \/ target = NoInode /\ CreateIfMissing /\ current' = EmptyRegistry
       \/ target # NoInode /\ Decode(content[target]) # Torn
          /\ current' = Decode(content[target])
    /\ up' = TRUE
    /\ UNCHANGED <<latest, files, savers, readers>>

Next ==
    \/ Mutate
    \/ \E s \in Saver : Save(s)
    \/ \E r \in Reader : Read(r)
    \/ Crash \/ PowerLoss \/ Start

Spec == Init /\ [][Next]_vars

-----------------------------------------------------------------------------
\* The type invariant.
TypeOK ==
    /\ up \in BOOLEAN
    /\ current \in Version /\ latest \in Version
    /\ content \in [Inode -> [Half -> Version]]
    /\ durable \in [Inode -> [Half -> Version]]
    /\ {temporary, target, durableTarget} \subseteq Inode \cup {NoInode}
    /\ savers \in [Saver -> [pc: {"idle", "captured", "opened", "half", "written", "closed",
                                  "discarding", "saved", "failed"},
                             inode: Inode \cup {NoInode}, payload: Version]]
    /\ readers \in [Reader -> [pc: {"idle", "opened", "half", "read"},
                               inode: Inode \cup {NoInode}, payload: Version \cup {Torn}]]

\* WriteFileAtomic: "A failure never leaves a partially written store
\* behind": at every moment, and after a loss of power at that moment, the
\* store's name leads to one complete payload or to none.
StoreComplete ==
    \A i \in {target, durableTarget} \ {NoInode} :
        /\ Decode(content[i]) # Torn
        /\ Decode(durable[i]) = Decode(content[i])

-----------------------------------------------------------------------------
(* The refinement of AtomicStore.                                          *)

Stored == IF target = NoInode THEN NoPayload ELSE Decode(content[target])

SavePhase(s) ==
    [phase |-> CASE At(s, "idle") -> "idle"
                 [] At(s, "saved") -> "saved"
                 [] At(s, "failed") -> "failed"
                 [] OTHER -> "pending",
     payload |-> savers[s].payload]

ReadPhase(r) ==
    [phase |-> CASE ReaderAt(r, "idle") -> "idle"
                 [] ReaderAt(r, "read") -> "read"
                 [] OTHER -> "pending",
     payload |-> IF ReaderAt(r, "idle") \/ ReaderAt(r, "read") THEN readers[r].payload
                 ELSE Decode(content[readers[r].inode])]

Abstract == INSTANCE AtomicStore WITH
    Payload <- Version, stored <- Stored,
    saves <- [s \in Saver |-> SavePhase(s)],
    reads <- [r \in Reader |-> ReadPhase(r)]

\* The file implements the atomic store: a save that is reported to have
\* failed changed nothing, one reported to have succeeded replaced the whole
\* payload at one instant, and no read and no restart sees anything else.
ImplementsAtomicStore == Abstract!Spec
=============================================================================
