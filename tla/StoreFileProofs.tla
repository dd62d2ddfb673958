--------------------------- MODULE StoreFileProofs ---------------------------
(***************************************************************************)
(* Proofs about the store file.  When one thread saves at a time and what  *)
(* it flushes is durable, the store is complete at every moment, also      *)
(* after a loss of power, on both platforms.  If the replacement of the    *)
(* name is durable too, or power is not lost, the file implements the      *)
(* atomic store.                                                           *)
(***************************************************************************)
EXTENDS StoreFile, TLAPS

\* Connection threads may save at once; the proofs are about one at a time.
OneSaver == \A s, t \in Saver : s = t

Flushed == DurableFlush /\ "flush" \notin Faults

-----------------------------------------------------------------------------
(* The inductive invariant.                                                *)

Writing == {"opened", "half", "written"}

\* What an inode holds survives a loss of power, and is one whole payload.
Whole(i) ==
    /\ content[i][1] # NoPayload
    /\ content[i][2] = content[i][1]
    /\ durable[i] = content[i]

\* How far the saver has come with the temporary file.
SaverOK(s) ==
    /\ savers[s].inode = IF savers[s].pc \in Writing THEN temporary ELSE NoInode
    /\ savers[s].pc \in Writing \cup {"closed"} => temporary # NoInode
    /\ savers[s].payload = NoPayload <=> savers[s].pc = "idle"
    /\ savers[s].pc = "half" => content[temporary][1] = savers[s].payload
    /\ savers[s].pc \in {"written", "closed"} =>
          content[temporary] = [h \in Half |-> savers[s].payload]
    /\ savers[s].pc = "closed" => durable[temporary] = content[temporary]

\* A reader holds a file that was the store, and is still whole.
ReaderOK(r) ==
    /\ readers[r].pc \in {"opened", "half"} =>
          /\ readers[r].inode \in Inode /\ readers[r].inode # temporary
          /\ Whole(readers[r].inode)
    /\ readers[r].pc = "half" => readers[r].payload = content[readers[r].inode][1]
    /\ readers[r].pc = "idle" => readers[r].payload = NoPayload

\* MoveFileExW makes the new name durable at once.
NamesOK ==
    /\ \A i \in {target, durableTarget} \ {NoInode} : i # temporary /\ Whole(i)
    /\ Windows => durableTarget = target

Inv ==
    /\ TypeOK
    /\ current # NoPayload
    /\ latest # NoPayload
    /\ NamesOK
    /\ \A s \in Saver : SaverOK(s)
    /\ \A r \in Reader : ReaderOK(r)

-----------------------------------------------------------------------------
(* What the files hold when a step leaves them alone.                      *)

SaverState == [pc: {"idle", "captured", "opened", "half", "written", "closed",
                    "discarding", "saved", "failed"},
               inode: Inode \cup {NoInode}, payload: Version]

\* The record of a saver and of its fields.
LEMMA SaverTypes ==
    ASSUME TypeOK, NEW s \in Saver
    PROVE  /\ savers \in [Saver -> SaverState]
           /\ savers[s] \in SaverState
           /\ savers[s] = [pc |-> savers[s].pc, inode |-> savers[s].inode,
                           payload |-> savers[s].payload]
           /\ savers[s].inode \in Inode \cup {NoInode} /\ savers[s].payload \in Version
<1>1. savers \in [Saver -> SaverState]
  BY DEF TypeOK, SaverState
<1> QED
  BY <1>1 DEF SaverState

\* A step that takes one saver elsewhere.
LEMMA SaverGoes ==
    ASSUME NEW s \in Saver, savers \in [Saver -> SaverState],
           NEW new \in SaverState, savers' = [savers EXCEPT ![s] = new]
    PROVE  savers' \in [Saver -> SaverState] /\ savers'[s] = new
OBVIOUS

\* A step that only advances a saver.
LEMMA SaverGoesTo ==
    ASSUME NEW s \in Saver, savers \in [Saver -> SaverState],
           NEW pc \in {"half", "written", "saved", "failed", "discarding"}, GoTo(s, pc)
    PROVE  /\ savers' \in [Saver -> SaverState]
           /\ savers' = [savers EXCEPT ![s] = [pc |-> pc, inode |-> savers[s].inode,
                                               payload |-> savers[s].payload]]
           /\ savers'[s] = [pc |-> pc, inode |-> savers[s].inode, payload |-> savers[s].payload]
<1>1. savers[s] \in SaverState
  OBVIOUS
<1>2. [savers[s] EXCEPT !.pc = pc] = [pc |-> pc, inode |-> savers[s].inode,
                                     payload |-> savers[s].payload]
  BY <1>1 DEF SaverState
<1>3. [pc |-> pc, inode |-> savers[s].inode, payload |-> savers[s].payload] \in SaverState
  BY <1>1 DEF SaverState
<1>4. savers' = [savers EXCEPT ![s] = [savers[s] EXCEPT !.pc = pc]]
  BY DEF GoTo
<1> QED
  BY <1>2, <1>3, <1>4

\* A step of a saver that leaves the files alone.
LEMMA SaverMoves ==
    ASSUME Inv, OneSaver, NEW s \in Saver, UNCHANGED <<up, current, latest, files, readers>>,
           NEW new \in [pc: {"idle", "captured", "closed", "discarding", "saved", "failed"},
                        inode: {NoInode}, payload: Version],
           savers' = [savers EXCEPT ![s] = new],
           new.payload = NoPayload <=> new.pc = "idle",
           new.pc = "closed" => savers[s].pc = "closed" /\ new.payload = savers[s].payload
    PROVE  Inv'
<1>1. /\ TypeOK /\ NamesOK /\ SaverOK(s) /\ \A r \in Reader : ReaderOK(r)
      /\ current # NoPayload /\ latest # NoPayload
  BY DEF Inv
<1>2. savers'[s] = new /\ \A t \in Saver : t = s
  BY <1>1 DEF OneSaver, TypeOK
<1>3. TypeOK'
  BY <1>1 DEF TypeOK, files, Version
<1>4. NamesOK'
  BY <1>1 DEF NamesOK, Whole, files
<1>5. SaverOK(s)'
  BY <1>1, <1>2 DEF SaverOK, Writing, files
<1>6. \A r \in Reader : ReaderOK(r)'
  BY <1>1 DEF ReaderOK, Whole, files
<1> QED
  BY <1>1, <1>2, <1>3, <1>4, <1>5, <1>6 DEF Inv

\* No store, nobody in a call: the invariant holds.
LEMMA InitInv == ASSUME StoreFileAssumption, Init PROVE Inv
<1>1. TypeOK
  BY DEF StoreFileAssumption, Init, TypeOK, Empty, Done, Version, EmptyRegistry, NoPayload
<1>2. NamesOK /\ current # NoPayload /\ latest # NoPayload
  BY DEF Init, NamesOK, EmptyRegistry, NoPayload
<1>3. \A s \in Saver : SaverOK(s)
  BY DEF Init, SaverOK, Done, Writing
<1>4. \A r \in Reader : ReaderOK(r)
  BY DEF Init, ReaderOK, Done
<1> QED
  BY <1>1, <1>2, <1>3, <1>4 DEF Inv

-----------------------------------------------------------------------------
(* Saving.                                                                 *)

\* A change of the registry reaches no file.
LEMMA MutateInv == ASSUME StoreFileAssumption, Inv, Mutate PROVE Inv'
<1>1. TypeOK' /\ current' # NoPayload /\ latest' # NoPayload
  BY DEF StoreFileAssumption, Inv, Mutate, TypeOK, Version, NoPayload, files
<1>2. NamesOK' /\ \A s \in Saver : SaverOK(s)'
  BY DEF Inv, Mutate, NamesOK, SaverOK, Whole, files
<1>3. \A r \in Reader : ReaderOK(r)'
  BY DEF Inv, Mutate, ReaderOK, Whole, files
<1> QED
  BY <1>1, <1>2, <1>3 DEF Inv

\* The steps of a save that touch no file.
LEMMA QuietStepInv ==
    ASSUME Inv, OneSaver, NEW s \in Saver,
           Capture(s) \/ Refuse(s) \/ OpenFails(s) \/ WriteFails(s) \/ ReplaceFails(s) \/ Return(s)
    PROVE  Inv'
<1>1. /\ savers[s] = [pc |-> savers[s].pc, inode |-> savers[s].inode, payload |-> savers[s].payload]
      /\ savers[s].payload \in Version /\ current \in Version /\ current # NoPayload
      /\ SaverOK(s) /\ NoPayload \in Version
  <2>1. TypeOK /\ SaverOK(s) /\ current \in Version /\ current # NoPayload
    BY DEF Inv, TypeOK
  <2>2. NoPayload \in Version
    BY StoreFileAssumption DEF StoreFileAssumption, Version, NoPayload
  <2> QED
    BY <2>1, <2>2, SaverTypes
<1>2. CASE Capture(s)
  <2> DEFINE new == [pc |-> "captured", inode |-> NoInode, payload |-> current]
  <2>1. savers' = [savers EXCEPT ![s] = new]
    BY <1>2 DEF Capture
  <2> QED
    BY <1>1, <1>2, <2>1, SaverMoves DEF Capture, Others
<1>3. CASE Refuse(s) \/ OpenFails(s)
  <2> DEFINE new == [pc |-> "failed", inode |-> NoInode, payload |-> savers[s].payload]
  <2>1. savers[s].pc = "captured" /\ savers[s].inode = NoInode /\ savers[s].payload # NoPayload
    BY <1>1, <1>3 DEF Refuse, OpenFails, At, SaverOK, Writing
  <2>2. savers' = [savers EXCEPT ![s] = new]
    BY <1>1, <1>3, <2>1 DEF Refuse, OpenFails, GoTo
  <2> QED
    BY <1>1, <1>3, <2>1, <2>2, SaverMoves DEF Refuse, OpenFails, Others
<1>4. CASE WriteFails(s) \/ ReplaceFails(s)
  <2> DEFINE new == [pc |-> "discarding", inode |-> NoInode, payload |-> savers[s].payload]
  <2>1. savers[s].payload # NoPayload /\ (ReplaceFails(s) => savers[s].inode = NoInode)
    BY <1>1, <1>4 DEF WriteFails, ReplaceFails, At, SaverOK, Writing
  <2>2. savers' = [savers EXCEPT ![s] = new]
    BY <1>1, <1>4, <2>1 DEF WriteFails, ReplaceFails, GoTo
  <2> QED
    BY <1>1, <1>4, <2>1, <2>2, SaverMoves DEF WriteFails, ReplaceFails, Others
<1>5. CASE Return(s)
  <2>1. savers' = [savers EXCEPT ![s] = Done]
    BY <1>5 DEF Return
  <2> QED
    BY <1>1, <1>5, <2>1, SaverMoves DEF Return, Others, Done
<1> QED
  BY <1>2, <1>3, <1>4, <1>5

\* The temporary file is not the store and no file that is read: an inode in
\* use is not free.
LEMMA OpenTemporaryInv ==
    ASSUME StoreFileAssumption, Inv, OneSaver, NEW s \in Saver, OpenTemporary(s) PROVE Inv'
<1>1. PICK i \in Inode :
         /\ IF temporary = NoInode THEN Free(i) ELSE i = temporary
         /\ temporary' = i
         /\ content' = [content EXCEPT ![i] = Empty]
         /\ durable' = [durable EXCEPT ![i] = Empty]
         /\ savers' = [savers EXCEPT ![s].pc = "opened", ![s].inode = i]
  BY DEF OpenTemporary
<1>2. /\ savers[s].pc = "captured"
      /\ UNCHANGED <<up, current, latest, readers, target, durableTarget>>
  BY DEF OpenTemporary, At, Others
<1>3. i \notin {target, durableTarget}
  BY <1>1 DEF Inv, NamesOK, Free, StoreFileAssumption
<1>4. \A r \in Reader : readers[r].pc \in {"opened", "half"} => readers[r].inode # i
  BY <1>1 DEF Inv, ReaderOK, Free, OpenByReader, StoreFileAssumption
<1>5. /\ \A j \in Inode \ {i} : content'[j] = content[j] /\ durable'[j] = durable[j]
      /\ i # NoInode
  BY <1>1 DEF Inv, TypeOK, StoreFileAssumption
<1>10. /\ savers' \in [Saver -> SaverState]
       /\ savers'[s] = [pc |-> "opened", inode |-> i, payload |-> savers[s].payload]
  <2>1. savers \in [Saver -> SaverState] /\ savers[s] \in SaverState
    BY SaverTypes DEF Inv
  <2> DEFINE new == [pc |-> "opened", inode |-> i, payload |-> savers[s].payload]
  <2>2. savers' = [savers EXCEPT ![s] = new] /\ new \in SaverState
    <3> DEFINE mid == [savers[s] EXCEPT !.pc = "opened"]
               first == [savers EXCEPT ![s] = mid]
    <3>1. /\ mid = [pc |-> "opened", inode |-> savers[s].inode, payload |-> savers[s].payload]
          /\ mid \in SaverState /\ new \in SaverState
      BY <2>1 DEF SaverState
    <3>2. savers' = [first EXCEPT ![s] = [first[s] EXCEPT !.inode = i]]
      BY <1>1
    <3>3. first[s] = mid
      BY <2>1
    <3>4. [[pc |-> "opened", inode |-> savers[s].inode, payload |-> savers[s].payload]
             EXCEPT !.inode = i] = new
      OBVIOUS
    <3> HIDE DEF mid, new, first
    <3> QED
      BY <2>1, <3>1, <3>2, <3>3, <3>4 DEF first
  <2> HIDE DEF new
  <2>3. savers' \in [Saver -> SaverState] /\ savers'[s] = new
    BY <2>1, <2>2, SaverGoes
  <2> QED
    BY <2>3 DEF new
<1>6. TypeOK'
  <2>1. Empty \in [Half -> Version]
    BY DEF Empty, Version, StoreFileAssumption
  <2> QED
    BY <1>1, <1>2, <1>10, <2>1 DEF Inv, TypeOK, SaverState
<1>7. NamesOK'
  <2>1. \A j \in {target, durableTarget} \ {NoInode} : j \in Inode
    BY DEF Inv, TypeOK
  <2> QED
    BY <1>1, <1>2, <1>3, <1>5, <2>1 DEF Inv, NamesOK, Whole
<1>8. \A t \in Saver : SaverOK(t)'
  <2>1. savers'[s].pc = "opened" /\ savers'[s].inode = i /\ savers'[s].payload = savers[s].payload
    BY <1>10
  <2>2. SaverOK(s)'
    BY <1>1, <1>2, <1>5, <2>1 DEF Inv, SaverOK, Writing
  <2> QED
    BY <2>2 DEF OneSaver
<1>9. \A r \in Reader : ReaderOK(r)'
  BY <1>1, <1>2, <1>4, <1>5 DEF Inv, ReaderOK, Whole
<1> QED
  BY <1>2, <1>6, <1>7, <1>8, <1>9 DEF Inv

\* Writing changes the temporary file and no other.
LEMMA WriteHalfInv ==
    ASSUME StoreFileAssumption, Inv, OneSaver, NEW s \in Saver,
           WriteHalf(s, 1, "opened", "half") \/ WriteHalf(s, 2, "half", "written")
    PROVE  Inv'
<1> DEFINE i == savers[s].inode
           p == savers[s].payload
<1>1. PICK h \in Half : /\ content' = [content EXCEPT ![i][h] = p]
                        /\ \/ h = 1 /\ savers[s].pc = "opened" /\ GoTo(s, "half")
                           \/ h = 2 /\ savers[s].pc = "half" /\ GoTo(s, "written")
  BY DEF WriteHalf, At, Half
<1>2. UNCHANGED <<up, current, latest, readers, durable, temporary, target, durableTarget>>
  BY DEF WriteHalf, Others
<1>3. /\ i = temporary /\ i \in Inode /\ p \in Version /\ content \in [Inode -> [Half -> Version]]
      /\ savers \in [Saver -> SaverState]
      /\ p # NoPayload
  <2>1. TypeOK /\ SaverOK(s) /\ content \in [Inode -> [Half -> Version]]
    BY DEF Inv, TypeOK
  <2>2. /\ savers \in [Saver -> SaverState] /\ i \in Inode \cup {NoInode} /\ p \in Version
    BY <2>1, SaverTypes
  <2> QED
    BY <1>1, <2>1, <2>2 DEF SaverOK, Writing
<1>4. /\ content' \in [Inode -> [Half -> Version]]
      /\ \A j \in Inode \ {i} : content'[j] = content[j]
      /\ content'[i] = [content[i] EXCEPT ![h] = p]
  BY <1>1, <1>3
<1>5. /\ savers'[s].pc = IF h = 1 THEN "half" ELSE "written"
      /\ savers'[s].inode = i /\ savers'[s].payload = p
      /\ savers' \in [Saver -> SaverState]
  <2>1. GoTo(s, IF h = 1 THEN "half" ELSE "written")
    BY <1>1
  <2> HIDE DEF i, p
  <2>2. savers'[s] = [pc |-> IF h = 1 THEN "half" ELSE "written", inode |-> savers[s].inode,
                      payload |-> savers[s].payload]
        /\ savers' \in [Saver -> SaverState]
    BY <1>3, <2>1, SaverGoesTo
  <2> QED
    BY <2>2 DEF i, p
<1> HIDE DEF i, p
<1>6. TypeOK'
  BY <1>2, <1>4, <1>5 DEF Inv, TypeOK, SaverState
<1>7. NamesOK'
  BY <1>2, <1>3, <1>4 DEF Inv, TypeOK, NamesOK, Whole
<1>8. SaverOK(s)'
  <2>1. h = 2 => content[i][1] = p
    BY <1>1, <1>3 DEF Inv, SaverOK, p
  <2>2. h = 2 => content'[i] = [g \in Half |-> p]
    <3>1. content[i] \in [Half -> Version] /\ content[i] = [g \in Half |-> content[i][g]]
      BY <1>3
    <3>2. h = 2 => \A g \in Half : [content[i] EXCEPT ![h] = p][g] = p
      BY <3>1, <2>1 DEF Half
    <3>3. [content[i] EXCEPT ![h] = p] = [g \in Half |-> [content[i] EXCEPT ![h] = p][g]]
      BY <3>1
    <3> QED
      BY <1>4, <3>2, <3>3
  <2>3. h = 1 => content'[i][1] = p
    BY <1>3, <1>4
  <2> QED
    BY <1>1, <1>2, <1>3, <1>5, <2>2, <2>3 DEF SaverOK, Writing, Half, Inv, TypeOK
<1>9. \A r \in Reader : ReaderOK(r)'
  BY <1>2, <1>3, <1>4 DEF Inv, ReaderOK, Whole
<1> QED
  BY <1>2, <1>6, <1>7, <1>8, <1>9 DEF Inv, OneSaver

\* What is flushed is the whole payload.
LEMMA FlushAndCloseInv ==
    ASSUME StoreFileAssumption, Inv, OneSaver, Flushed, NEW s \in Saver, FlushAndClose(s)
    PROVE  Inv'
<1> DEFINE i == savers[s].inode
           new == [pc |-> "closed", inode |-> NoInode, payload |-> savers[s].payload]
<1>1. /\ savers[s].pc = "written" /\ savers[s].inode = temporary /\ temporary # NoInode
      /\ content[temporary] = [h \in Half |-> savers[s].payload]
      /\ savers[s].payload # NoPayload
      /\ savers \in [Saver -> SaverState] /\ new \in SaverState
      /\ savers[s] = [pc |-> savers[s].pc, inode |-> savers[s].inode, payload |-> savers[s].payload]
      /\ temporary \in Inode
      /\ content \in [Inode -> [Half -> Version]] /\ durable \in [Inode -> [Half -> Version]]
  <2>1. TypeOK /\ SaverOK(s) /\ At(s, "written")
    BY DEF Inv, FlushAndClose
  <2>2. savers \in [Saver -> SaverState] /\ savers[s].payload \in Version
    BY <2>1, SaverTypes
  <2>3. new \in SaverState
    BY <2>2 DEF SaverState
  <2>4. savers[s] = [pc |-> savers[s].pc, inode |-> savers[s].inode, payload |-> savers[s].payload]
    BY <2>1, SaverTypes
  <2> HIDE DEF new
  <2> QED
    BY <2>1, <2>2, <2>3, <2>4 DEF TypeOK, SaverOK, At, Writing
<1>2. /\ durable' = [durable EXCEPT ![i] = content[i]]
      /\ UNCHANGED <<up, current, latest, readers, content, temporary, target, durableTarget>>
  BY DEF FlushAndClose, Others, Flushed
<1>3. savers'[s] = new /\ savers' \in [Saver -> SaverState]
  <2>1. savers' = [savers EXCEPT ![s].pc = "closed", ![s].inode = NoInode]
    BY DEF FlushAndClose
  <2> QED
    BY <1>1, <2>1
<1> HIDE DEF new
<1>4. durable' \in [Inode -> [Half -> Version]] /\ durable'[i] = content[i]
      /\ \A j \in Inode \ {i} : durable'[j] = durable[j]
  BY <1>1, <1>2
<1>5. TypeOK'
  BY <1>2, <1>3, <1>4 DEF Inv, TypeOK, SaverState
<1>6. NamesOK' /\ \A r \in Reader : ReaderOK(r)'
  BY <1>1, <1>2, <1>4 DEF Inv, TypeOK, NamesOK, ReaderOK, Whole
<1>7. SaverOK(s)'
  BY <1>1, <1>2, <1>3, <1>4 DEF SaverOK, Writing, new
<1> QED
  BY <1>2, <1>5, <1>6, <1>7 DEF Inv, OneSaver

\* The temporary file, flushed and whole, becomes the store.
LEMMA ReplaceInv ==
    ASSUME StoreFileAssumption, Inv, OneSaver, NEW s \in Saver, Replace(s) PROVE Inv'
<1>1. TypeOK /\ SaverOK(s) /\ NamesOK /\ At(s, "closed")
  BY DEF Inv, Replace
<1>2. /\ savers[s].pc = "closed" /\ savers[s].inode = NoInode /\ temporary # NoInode
      /\ savers[s].payload # NoPayload
      /\ Whole(temporary) /\ temporary \in Inode
  BY <1>1 DEF SaverOK, Writing, At, TypeOK, Whole, Half
<1>3. /\ UNCHANGED <<up, current, latest, readers, content, durable>>
      /\ target' = temporary /\ temporary' = NoInode
      /\ durableTarget' = IF Windows THEN temporary ELSE durableTarget
  BY DEF Replace, Others
<1>4. /\ savers' \in [Saver -> SaverState]
      /\ savers'[s] = [pc |-> "saved", inode |-> NoInode, payload |-> savers[s].payload]
  BY <1>1, <1>2, SaverTypes, SaverGoesTo DEF Replace
<1>5. TypeOK'
  BY <1>1, <1>2, <1>3, <1>4 DEF TypeOK, SaverState
<1>6. NamesOK'
  BY <1>1, <1>2, <1>3 DEF NamesOK, Whole, StoreFileAssumption
<1>7. SaverOK(s)'
  BY <1>2, <1>4 DEF SaverOK, Writing
<1>8. \A r \in Reader : ReaderOK(r)'
  BY <1>3 DEF Inv, ReaderOK, Whole, StoreFileAssumption
<1> QED
  BY <1>3, <1>5, <1>6, <1>7, <1>8 DEF Inv, OneSaver

\* Deleting the temporary name leaves the store and the open files.
LEMMA DiscardInv ==
    ASSUME StoreFileAssumption, Inv, OneSaver, NEW s \in Saver, Discard(s) PROVE Inv'
<1>1. TypeOK /\ SaverOK(s) /\ NamesOK /\ At(s, "discarding")
  BY DEF Inv, Discard
<1>2. savers[s].pc = "discarding" /\ savers[s].inode = NoInode /\ savers[s].payload # NoPayload
  BY <1>1 DEF SaverOK, Writing, At
<1>3. /\ UNCHANGED <<up, current, latest, readers, content, durable, target, durableTarget>>
      /\ temporary' \in {temporary, NoInode}
  BY DEF Discard, Others
<1>4. /\ savers' \in [Saver -> SaverState]
      /\ savers'[s] = [pc |-> "failed", inode |-> NoInode, payload |-> savers[s].payload]
  BY <1>1, <1>2, SaverTypes, SaverGoesTo DEF Discard
<1>5. TypeOK'
  BY <1>1, <1>3, <1>4 DEF TypeOK, SaverState
<1>6. NamesOK'
  BY <1>1, <1>3 DEF NamesOK, Whole
<1>7. SaverOK(s)'
  BY <1>2, <1>4 DEF SaverOK, Writing
<1>8. \A r \in Reader : ReaderOK(r)'
  BY <1>3 DEF Inv, ReaderOK, Whole, StoreFileAssumption
<1> QED
  BY <1>3, <1>5, <1>6, <1>7, <1>8 DEF Inv, OneSaver

-----------------------------------------------------------------------------
(* Reading, and the failures of process and machine.                       *)

ReaderState == [pc: {"idle", "opened", "half", "read"},
                inode: Inode \cup {NoInode}, payload: Version \cup {Torn}]

\* The record of a reader and of its fields.
LEMMA ReaderTypes ==
    ASSUME TypeOK, NEW r \in Reader
    PROVE  /\ readers \in [Reader -> ReaderState]
           /\ readers[r] = [pc |-> readers[r].pc, inode |-> readers[r].inode,
                            payload |-> readers[r].payload]
           /\ readers[r].inode \in Inode \cup {NoInode}
           /\ readers[r].payload \in Version \cup {Torn}
<1>1. readers \in [Reader -> ReaderState]
  BY DEF TypeOK, ReaderState
<1> QED
  BY <1>1 DEF ReaderState

\* A step of one reader.
LEMMA ReaderMoves ==
    ASSUME Inv, NEW r \in Reader, UNCHANGED <<up, current, latest, files, savers>>,
           NEW new \in ReaderState, readers' = [readers EXCEPT ![r] = new],
           new.pc \in {"opened", "half"} =>
               new.inode \in Inode /\ new.inode # temporary /\ Whole(new.inode),
           new.pc = "half" => new.payload = content[new.inode][1],
           new.pc = "idle" => new.payload = NoPayload
    PROVE  Inv'
<1>1. TypeOK /\ readers \in [Reader -> ReaderState]
  BY ReaderTypes DEF Inv
<1>2. /\ readers' \in [Reader -> ReaderState] /\ readers'[r] = new
      /\ \A q \in Reader \ {r} : readers'[q] = readers[q]
  BY <1>1
<1>3. TypeOK'
  BY <1>1, <1>2 DEF TypeOK, files, ReaderState, Version
<1>4. NamesOK' /\ \A s \in Saver : SaverOK(s)'
  BY DEF Inv, NamesOK, SaverOK, Whole, files
<1>5. ReaderOK(r)'
  BY <1>2 DEF ReaderOK, Whole, files
<1>6. \A q \in Reader \ {r} : ReaderOK(q)'
  BY <1>2 DEF Inv, ReaderOK, Whole, files
<1> QED
  BY <1>3, <1>4, <1>5, <1>6 DEF Inv

\* Reading changes no file, and the file a reader opened is whole.
LEMMA ReadInv ==
    ASSUME StoreFileAssumption, Inv, NEW r \in Reader, Read(r) PROVE Inv'
<1>1. /\ TypeOK /\ NamesOK /\ ReaderOK(r)
      /\ readers[r] = [pc |-> readers[r].pc, inode |-> readers[r].inode,
                       payload |-> readers[r].payload]
      /\ content \in [Inode -> [Half -> Version]] /\ target \in Inode \cup {NoInode}
      /\ NoPayload \in Version
  BY ReaderTypes DEF Inv, TypeOK, StoreFileAssumption, Version, NoPayload
<1>2. CASE OpenForRead(r)
  <2> DEFINE new == [pc |-> "opened", inode |-> target, payload |-> NoPayload]
  <2>1. readers' = [readers EXCEPT ![r] = new] /\ target # NoInode
    BY <1>2 DEF OpenForRead
  <2>2. new \in ReaderState /\ target # temporary /\ Whole(target) /\ target \in Inode
    BY <1>1, <2>1 DEF ReaderState, NamesOK
  <2> QED
    BY <1>2, <2>1, <2>2, ReaderMoves DEF OpenForRead
<1>3. CASE ReadFirst(r)
  <2> DEFINE i == readers[r].inode
             new == [pc |-> "half", inode |-> i, payload |-> content[i][1]]
  <2>1. /\ i \in Inode /\ i # temporary /\ Whole(i)
    BY <1>1, <1>3 DEF ReadFirst, ReaderAt, ReaderOK
  <2>2. new \in ReaderState
    BY <1>1, <2>1 DEF ReaderState, Half
  <2>3. readers' = [readers EXCEPT ![r] = new]
    <3> DEFINE mid == [readers[r] EXCEPT !.pc = "half"]
               first == [readers EXCEPT ![r] = mid]
    <3>1. mid = [pc |-> "half", inode |-> i, payload |-> readers[r].payload]
      BY <1>1
    <3>2. readers' = [first EXCEPT ![r] = [first[r] EXCEPT !.payload = content[i][1]]]
      BY <1>3 DEF ReadFirst
    <3>3. readers \in [Reader -> ReaderState] /\ first[r] = mid
      BY <1>1, ReaderTypes
    <3>4. [[pc |-> "half", inode |-> i, payload |-> readers[r].payload]
             EXCEPT !.payload = content[i][1]] = new
      OBVIOUS
    <3> HIDE DEF mid, new, first
    <3> QED
      BY <3>1, <3>2, <3>3, <3>4 DEF first
  <2> QED
    BY <1>3, <2>1, <2>2, <2>3, ReaderMoves DEF ReadFirst
<1>4. CASE ReadSecond(r)
  <2> DEFINE p == Decode([content[readers[r].inode] EXCEPT ![1] = readers[r].payload])
             new == [pc |-> "read", inode |-> NoInode, payload |-> p]
  <2>1. readers[r].inode \in Inode /\ readers[r].payload \in Version
    BY <1>1, <1>4 DEF ReadSecond, ReaderAt, ReaderOK, Half
  <2>2. p \in Version \cup {Torn}
    BY <1>1, <2>1 DEF Decode, Half
  <2>3. new \in ReaderState
    BY <2>2 DEF ReaderState
  <2>4. readers' = [readers EXCEPT ![r] = new]
    BY <1>4 DEF ReadSecond
  <2> HIDE DEF p
  <2> QED
    BY <1>4, <2>3, <2>4, ReaderMoves DEF ReadSecond
<1>5. CASE ReturnRead(r)
  <2>1. Done \in ReaderState /\ readers' = [readers EXCEPT ![r] = Done]
    BY <1>1, <1>5 DEF Done, ReaderState, ReturnRead
  <2> QED
    BY <1>5, <2>1, ReaderMoves DEF ReturnRead, Done
<1> QED
  BY <1>2, <1>3, <1>4, <1>5 DEF Read

\* Threads that ended with their process.
LEMMA IdleSavers ==
    ASSUME StoreFileAssumption, savers' = [s \in Saver |-> Done]
    PROVE  /\ savers' \in [Saver -> SaverState]
           /\ \A s \in Saver : SaverOK(s)'
<1>1. Done \in SaverState
  BY DEF StoreFileAssumption, Done, SaverState, Version, NoPayload
<1> QED
  BY <1>1 DEF SaverOK, Done, Writing

\* The files stay as a crash of the process finds them.
LEMMA CrashInv == ASSUME StoreFileAssumption, Inv, Crash PROVE Inv'
<1>1. /\ UNCHANGED <<current, latest, files, readers>> /\ up' \in BOOLEAN
      /\ savers' = [s \in Saver |-> Done]
  BY DEF Crash
<1>2. TypeOK'
  BY <1>1, IdleSavers DEF Inv, TypeOK, files, Version, SaverState
<1>3. NamesOK' /\ \A r \in Reader : ReaderOK(r)'
  BY <1>1 DEF Inv, NamesOK, ReaderOK, Whole, files
<1> QED
  BY <1>1, <1>2, <1>3, IdleSavers DEF Inv

\* The store's name is one of two, and what either leads to was flushed: no
\* file that matters changes.
LEMMA PowerLossKeeps ==
    ASSUME StoreFileAssumption, Inv, PowerLoss
    PROVE  /\ content' = content /\ durable' = content'
           /\ \E t \in {target, durableTarget} :
                 /\ target' = t /\ durableTarget' = t
                 /\ temporary' \in {temporary, NoInode} \ ({t} \ {NoInode})
<1>1. PICK t \in {target, durableTarget}, lost \in SUBSET Half :
         /\ target' = t
         /\ durableTarget' = t
         /\ content' = [i \in Inode |->
                          IF i = t THEN [h \in Half |-> IF h \in lost THEN durable[i][h]
                                                        ELSE content[i][h]]
                          ELSE content[i]]
         /\ durable' = content'
         /\ temporary' \in {temporary, NoInode} \ ({t} \ {NoInode})
  BY DEF PowerLoss
<1>2. /\ content \in [Inode -> [Half -> Version]] /\ durable \in [Inode -> [Half -> Version]]
      /\ t \in Inode \cup {NoInode}
  BY DEF Inv, TypeOK
<1>3. t # NoInode => t # temporary /\ Whole(t)
  BY DEF Inv, NamesOK
<1>4. content' = content
  <2>1. \A i \in Inode : content'[i] = content[i]
    <3> SUFFICES ASSUME NEW i \in Inode PROVE content'[i] = content[i]
      OBVIOUS
    <3>1. CASE i = t
      <4>1. durable[i] = content[i]
        BY <1>3, <3>1 DEF Whole, StoreFileAssumption
      <4>2. content'[i] = [h \in Half |-> content[i][h]]
        BY <1>1, <3>1, <4>1
      <4> QED
        BY <1>2, <4>2
    <3>2. CASE i # t
      BY <1>1, <3>2
    <3> QED
      BY <3>1, <3>2
  <2>2. content' = [i \in Inode |-> content'[i]]
    BY <1>1
  <2>3. content = [i \in Inode |-> content[i]]
    BY <1>2
  <2> QED
    BY <2>1, <2>2, <2>3
<1> QED
  BY <1>1, <1>4

\* After a loss of power the store is one that was flushed.
LEMMA PowerLossInv == ASSUME StoreFileAssumption, Inv, PowerLoss PROVE Inv'
<1>1. /\ content' = content /\ durable' = content'
      /\ \E t \in {target, durableTarget} :
            /\ target' = t /\ durableTarget' = t
            /\ temporary' \in {temporary, NoInode} \ ({t} \ {NoInode})
  BY PowerLossKeeps
<1>2. /\ UNCHANGED <<current, latest>> /\ up' \in BOOLEAN
      /\ savers' = [s \in Saver |-> Done] /\ readers' = [r \in Reader |-> Done]
  BY DEF PowerLoss
<1>3. TypeOK'
  <2>1. Done \in ReaderState
    BY DEF Done, ReaderState, Version, NoPayload, StoreFileAssumption
  <2>2. readers' \in [Reader -> ReaderState] /\ savers' \in [Saver -> SaverState]
    BY <1>2, <2>1, IdleSavers
  <2> QED
    BY <1>1, <1>2, <2>2 DEF Inv, TypeOK, ReaderState, SaverState
<1>4. NamesOK'
  BY <1>1 DEF Inv, NamesOK, Whole
<1>5. \A r \in Reader : ReaderOK(r)'
  BY <1>2 DEF ReaderOK, Done
<1> QED
  BY <1>2, <1>3, <1>4, <1>5, IdleSavers DEF Inv

\* A restart takes a whole payload or the empty registry.
LEMMA StartInv == ASSUME StoreFileAssumption, Inv, Start PROVE Inv'
<1>1. /\ UNCHANGED <<latest, files, savers, readers>> /\ up' \in BOOLEAN
  BY DEF Start
<1>2. current' \in Version /\ current' # NoPayload
  <2>1. CASE target = NoInode /\ current' = EmptyRegistry
    BY <2>1 DEF StoreFileAssumption, Version, EmptyRegistry, NoPayload
  <2>2. CASE target # NoInode /\ current' = Decode(content[target])
    BY <2>2 DEF Inv, TypeOK, NamesOK, Whole, Decode, Half, NoPayload
  <2> QED
    BY <2>1, <2>2 DEF Start
<1>3. TypeOK'
  BY <1>1, <1>2 DEF Inv, TypeOK, files, Version
<1>4. NamesOK' /\ (\A s \in Saver : SaverOK(s)') /\ \A r \in Reader : ReaderOK(r)'
  BY <1>1 DEF Inv, NamesOK, ReaderOK, SaverOK, Whole, files
<1> QED
  BY <1>1, <1>2, <1>3, <1>4 DEF Inv

\* Every step preserves the invariant.
LEMMA NextInv ==
    ASSUME StoreFileAssumption, OneSaver, Flushed, Inv, [Next]_vars PROVE Inv'
<1>1. CASE Mutate
  BY <1>1, MutateInv
<1>2. CASE \E s \in Saver : Save(s)
  BY <1>2, QuietStepInv, OpenTemporaryInv, WriteHalfInv, FlushAndCloseInv, ReplaceInv, DiscardInv
     DEF Save
<1>3. CASE \E r \in Reader : Read(r)
  BY <1>3, ReadInv
<1>4. CASE Crash \/ PowerLoss \/ Start
  BY <1>4, CrashInv, PowerLossInv, StartInv
<1>5. CASE UNCHANGED vars
  BY <1>5 DEF vars, files, Inv, TypeOK, NamesOK, SaverOK, ReaderOK, Whole, Version
<1> QED
  BY <1>1, <1>2, <1>3, <1>4, <1>5 DEF Next

\* Save, Load and failures between any two of their steps keep the invariant.
THEOREM StoreInvariance ==
    ASSUME OneSaver, Flushed PROVE Spec => []Inv
<1>1. Init => Inv
  BY InitInv, StoreFileAssumption
<1>2. Inv /\ [Next]_vars => Inv'
  BY NextInv, StoreFileAssumption
<1> QED
  BY <1>1, <1>2, PTL DEF Spec

\* Every call and every failure leaves the state of the store in its type.
THEOREM StoreTypeCorrect ==
    ASSUME OneSaver, Flushed PROVE Spec => []TypeOK
<1>1. Inv => TypeOK
  BY DEF Inv
<1> QED
  BY <1>1, StoreInvariance, PTL

\* "A failure never leaves a partially written store behind": whichever steps
\* of a save fail, and wherever the process or the power is lost.
THEOREM StoreAlwaysComplete ==
    ASSUME OneSaver, Flushed PROVE Spec => []StoreComplete
<1>1. Inv => StoreComplete
  BY DEF Inv, TypeOK, NamesOK, Whole, StoreComplete, Decode, Torn, Version, NoPayload, Half
<1> QED
  BY <1>1, StoreInvariance, PTL

-----------------------------------------------------------------------------
(* The refinement.                                                         *)

\* A name that was replaced does not come back.
NameStays == Windows \/ "power" \notin Faults

Saves == [s \in Saver |-> SavePhase(s)]
Reads == [r \in Reader |-> ReadPhase(r)]

\* What the store holds is seen through the name and the file it leads to.
LEMMA StoredStays ==
    ASSUME target' = target, target # NoInode => content'[target] = content[target]
    PROVE  Stored' = Stored
BY DEF Stored, Decode

\* Readers see nothing of a step that leaves the files they hold alone.
LEMMA ReadsStay ==
    ASSUME Inv, readers' = readers,
           \A r \in Reader : readers[r].pc \in {"opened", "half"} =>
               content'[readers[r].inode] = content[readers[r].inode]
    PROVE  Reads' = Reads
<1> SUFFICES ASSUME NEW r \in Reader PROVE ReadPhase(r)' = ReadPhase(r)
  BY DEF Reads
<1>1. readers[r].pc \in {"idle", "opened", "half", "read"}
  BY DEF Inv, TypeOK
<1>2. CASE readers[r].pc \in {"opened", "half"}
  BY <1>2 DEF ReadPhase, ReaderAt, Decode
<1>3. CASE readers[r].pc \in {"idle", "read"}
  BY <1>3 DEF ReadPhase, ReaderAt
<1> QED
  BY <1>1, <1>2, <1>3

\* With one saver, its step is the step of all saves.
LEMMA SavesMove ==
    ASSUME OneSaver, NEW s \in Saver
    PROVE  Saves' = [Saves EXCEPT ![s] = SavePhase(s)'] /\ Saves[s] = SavePhase(s)
BY DEF OneSaver, Saves

\* What a saver looks like from outside.
LEMMA PhaseOfSaver ==
    ASSUME NEW s \in Saver
    PROVE  /\ SavePhase(s).payload = savers[s].payload
           /\ savers[s].pc = "idle" => SavePhase(s).phase = "idle"
           /\ savers[s].pc = "saved" => SavePhase(s).phase = "saved"
           /\ savers[s].pc = "failed" => SavePhase(s).phase = "failed"
           /\ savers[s].pc \notin {"idle", "saved", "failed"} => SavePhase(s).phase = "pending"
           /\ SavePhase(s) = [phase |-> SavePhase(s).phase, payload |-> SavePhase(s).payload]
BY DEF SavePhase, At

\* No store, and nobody in a call.
LEMMA InitSimulates ==
    ASSUME Init PROVE Abstract!Init
<1>1. Stored = NoPayload
  BY DEF Init, Stored
<1>2. \A s \in Saver : SavePhase(s) = Abstract!Idle
  BY DEF Init, SavePhase, At, Done, Abstract!Idle
<1>3. \A r \in Reader : ReadPhase(r) = Abstract!Idle
  BY DEF Init, ReadPhase, ReaderAt, Done, Abstract!Idle
<1> QED
  BY <1>1, <1>2, <1>3 DEF Abstract!Init

\* The temporary file is neither the store nor read.
LEMMA FilesSeen ==
    ASSUME Inv, Inv', target' = target, readers' = readers,
           \A j \in Inode : j # temporary' => content'[j] = content[j]
    PROVE  Stored' = Stored /\ Reads' = Reads
<1>1. target # NoInode => target \in Inode /\ target # temporary'
  BY DEF Inv, TypeOK, NamesOK
<1>2. \A r \in Reader : readers[r].pc \in {"opened", "half"} =>
         readers[r].inode \in Inode /\ readers[r].inode # temporary'
  BY DEF Inv, ReaderOK
<1> QED
  BY <1>1, <1>2, StoredStays, ReadsStay

\* The abstract step of a saver's step.
LEMMA SaveSimulates ==
    ASSUME StoreFileAssumption, Inv, Inv', OneSaver, NEW s \in Saver, Save(s)
    PROVE  \/ \E p \in Version : Abstract!Begin(s, p)
           \/ Abstract!Commit(s) \/ Abstract!Fail(s) \/ Abstract!Return(s)
           \/ UNCHANGED Abstract!vars
<1>1. /\ TypeOK /\ SaverOK(s) /\ NamesOK /\ savers \in [Saver -> SaverState]
      /\ \A r \in Reader : ReaderOK(r)
  BY SaverTypes DEF Inv
<1>goes. \A pc \in {"half", "written", "saved", "failed", "discarding"} :
          GoTo(s, pc) => savers'[s].pc = pc /\ savers'[s].payload = savers[s].payload
  <2> SUFFICES ASSUME NEW pc \in {"half", "written", "saved", "failed", "discarding"}, GoTo(s, pc)
               PROVE  savers'[s].pc = pc /\ savers'[s].payload = savers[s].payload
    OBVIOUS
  <2>1. savers'[s] = [pc |-> pc, inode |-> savers[s].inode, payload |-> savers[s].payload]
    BY <1>1, SaverGoesTo
  <2> QED
    BY <2>1
<1>opens. \A pc, i : savers' = [savers EXCEPT ![s].pc = pc, ![s].inode = i] =>
          savers'[s].pc = pc /\ savers'[s].payload = savers[s].payload
  BY <1>1 DEF SaverState
<1>2. CASE Capture(s)
  <2>1. savers[s].pc = "idle" /\ savers[s].payload = NoPayload /\ current \in Version
    BY <1>1, <1>2 DEF Capture, At, SaverOK, TypeOK
  <2>2. savers'[s].pc = "captured" /\ savers'[s].payload = current
    BY <1>1, <1>2 DEF Capture
  <2>3. SavePhase(s) = Abstract!Idle
    BY <2>1, PhaseOfSaver DEF Abstract!Idle
  <2>4. SavePhase(s)' = [phase |-> "pending", payload |-> current]
    BY <2>2 DEF SavePhase, At
  <2>5. Stored' = Stored /\ Reads' = Reads
    BY <1>2, StoredStays, ReadsStay DEF Capture, Others, files
  <2>6. Abstract!Begin(s, current)
    BY <2>3, <2>4, <2>5, SavesMove DEF Abstract!Begin, Abstract!Call, Saves, Reads
  <2> QED
    BY <2>1, <2>6
<1>3. ASSUME savers[s].pc \notin {"idle", "saved", "failed"},
              savers'[s].pc = "failed", savers'[s].payload = savers[s].payload,
              Stored' = Stored, Reads' = Reads
       PROVE  Abstract!Fail(s)
  <2>1. SavePhase(s) = [phase |-> "pending", payload |-> savers[s].payload]
    BY <1>3, PhaseOfSaver
  <2>2. SavePhase(s)' = [phase |-> "failed", payload |-> savers[s].payload]
    BY <1>3 DEF SavePhase, At
  <2>3. [SavePhase(s) EXCEPT !.phase = "failed"] = SavePhase(s)'
    BY <2>1, <2>2
  <2> QED
    BY <1>3, <2>1, <2>3, SavesMove DEF Abstract!Fail, Saves, Reads
<1>4. ASSUME savers[s].pc \notin {"idle", "saved", "failed"},
              savers'[s].pc \notin {"idle", "saved", "failed"},
              savers'[s].payload = savers[s].payload,
              Stored' = Stored, Reads' = Reads
       PROVE  UNCHANGED Abstract!vars
  <2>1. SavePhase(s) = [phase |-> "pending", payload |-> savers[s].payload]
    BY <1>4, PhaseOfSaver
  <2>2. SavePhase(s)' = [phase |-> "pending", payload |-> savers[s].payload]
    BY <1>4 DEF SavePhase, At
  <2>3. Saves' = Saves
    BY <2>1, <2>2 DEF Saves, OneSaver
  <2> QED
    BY <1>4, <2>3 DEF Abstract!vars, Saves, Reads
<1>5. CASE Refuse(s) \/ OpenFails(s)
  <2>1. savers'[s].pc = "failed" /\ savers'[s].payload = savers[s].payload /\ savers[s].pc = "captured"
    BY <1>1, <1>5, <1>goes DEF Refuse, OpenFails, At
  <2>2. Stored' = Stored /\ Reads' = Reads
    BY <1>5, FilesSeen DEF Refuse, OpenFails, Others, files
  <2> QED
    BY <1>3, <2>1, <2>2
<1>6. CASE OpenTemporary(s)
  <2>1. PICK i \in Inode : /\ temporary' = i /\ content' = [content EXCEPT ![i] = Empty]
                          /\ savers' = [savers EXCEPT ![s].pc = "opened", ![s].inode = i]
    BY <1>6 DEF OpenTemporary
  <2>2. savers[s].pc = "captured" /\ savers'[s].pc = "opened" /\ savers'[s].payload = savers[s].payload
    BY <1>6, <1>opens, <2>1 DEF OpenTemporary, At
  <2>3. \A j \in Inode : j # temporary' => content'[j] = content[j]
    BY <1>1, <2>1 DEF TypeOK
  <2>4. Stored' = Stored /\ Reads' = Reads
    BY <1>6, <2>3, FilesSeen DEF OpenTemporary, Others
  <2> QED
    BY <1>4, <2>2, <2>4
<1>7. CASE WriteHalf(s, 1, "opened", "half") \/ WriteHalf(s, 2, "half", "written")
  <2>1. PICK h : content' = [content EXCEPT ![savers[s].inode][h] = savers[s].payload]
    BY <1>7 DEF WriteHalf
  <2>2. /\ savers[s].pc \in Writing /\ savers'[s].pc \in {"half", "written"}
        /\ savers'[s].payload = savers[s].payload
    BY <1>1, <1>7, <1>goes DEF WriteHalf, At, Writing
  <2>3. savers[s].inode = temporary' /\ readers' = readers /\ target' = target
    BY <1>1, <1>7, <2>2 DEF WriteHalf, Others, SaverOK
  <2>4. \A j \in Inode : j # temporary' => content'[j] = content[j]
    BY <1>1, <2>1, <2>3 DEF TypeOK
  <2>5. Stored' = Stored /\ Reads' = Reads
    BY <2>3, <2>4, FilesSeen
  <2> QED
    BY <1>4, <2>2, <2>5 DEF Writing
<1>8. CASE WriteFails(s) \/ FlushAndClose(s) \/ ReplaceFails(s)
  <2>1. /\ savers[s].pc \in {"opened", "half", "written", "closed"}
        /\ savers'[s].pc \in {"discarding", "closed"}
        /\ savers'[s].payload = savers[s].payload
    <3>1. CASE WriteFails(s) \/ FlushAndClose(s)
      BY <1>opens, <3>1 DEF WriteFails, FlushAndClose, At
    <3>2. CASE ReplaceFails(s)
      BY <1>1, <3>2, <1>goes DEF ReplaceFails, At
    <3> QED
      BY <1>8, <3>1, <3>2
  <2>2. Stored' = Stored /\ Reads' = Reads
    BY <1>8, FilesSeen DEF WriteFails, FlushAndClose, ReplaceFails, Others, files
  <2> QED
    BY <1>4, <2>1, <2>2
<1>9. CASE Discard(s)
  <2>1. savers'[s].pc = "failed" /\ savers'[s].payload = savers[s].payload /\ savers[s].pc = "discarding"
    BY <1>1, <1>9, <1>goes DEF Discard, At
  <2>2. Stored' = Stored /\ Reads' = Reads
    BY <1>9, FilesSeen DEF Discard, Others
  <2> QED
    BY <1>3, <2>1, <2>2
<1>10. CASE Replace(s)
  <2>1. /\ savers'[s].pc = "saved" /\ savers'[s].payload = savers[s].payload
        /\ savers[s].pc = "closed" /\ savers[s].payload # NoPayload
        /\ content[temporary] = [h \in Half |-> savers[s].payload]
        /\ temporary # NoInode
    BY <1>1, <1>10, <1>goes DEF Replace, At, SaverOK, Writing
  <2>2. target' = temporary /\ content' = content /\ readers' = readers
    BY <1>10 DEF Replace, Others
  <2>3. Stored' = savers[s].payload
    BY <2>1, <2>2 DEF Stored, Decode, Half, NoPayload
  <2>4. Reads' = Reads
    BY <2>2, ReadsStay
  <2>5. SavePhase(s) = [phase |-> "pending", payload |-> savers[s].payload]
    BY <2>1, PhaseOfSaver
  <2>6. SavePhase(s)' = [phase |-> "saved", payload |-> savers[s].payload]
    BY <2>1 DEF SavePhase, At
  <2>7. [SavePhase(s) EXCEPT !.phase = "saved"] = SavePhase(s)'
    BY <2>5, <2>6
  <2>8. Abstract!Commit(s)
    BY <2>3, <2>4, <2>5, <2>7, SavesMove DEF Abstract!Commit, Saves, Reads
  <2> QED
    BY <2>8
<1>11. CASE Return(s)
  <2>1. /\ savers'[s] = Done /\ savers[s].pc \in {"saved", "failed"}
    BY <1>1, <1>11 DEF Return, At
  <2>2. Stored' = Stored /\ Reads' = Reads
    BY <1>11, FilesSeen DEF Return, Others, files
  <2>3. SavePhase(s).phase \in {"saved", "failed"} /\ SavePhase(s)' = Abstract!Idle
    BY <2>1, PhaseOfSaver DEF SavePhase, At, Done, Abstract!Idle
  <2>4. Abstract!Return(s)
    BY <2>2, <2>3, SavesMove DEF Abstract!Return, Saves, Reads
  <2> QED
    BY <2>4
<1> QED
  BY <1>2, <1>5, <1>6, <1>7, <1>8, <1>9, <1>10, <1>11 DEF Save

\* The abstract step of a reader's step.
LEMMA ReadSimulates ==
    ASSUME StoreFileAssumption, Inv, NEW r \in Reader, Read(r)
    PROVE  \/ Abstract!BeginRead(r) \/ Abstract!EndRead(r) \/ Abstract!ReturnRead(r)
           \/ UNCHANGED Abstract!vars
<1>1. /\ TypeOK /\ ReaderOK(r) /\ NamesOK /\ readers \in [Reader -> ReaderState]
      /\ content \in [Inode -> [Half -> Version]]
  BY ReaderTypes DEF Inv, TypeOK
<1>2. UNCHANGED <<files, savers>>
  BY DEF Read, OpenForRead, ReadFirst, ReadSecond, ReturnRead
<1>3. Stored' = Stored /\ Saves' = Saves
  BY <1>2, StoredStays DEF files, Saves, SavePhase, At
<1>4. \A q \in Reader \ {r} : readers'[q] = readers[q]
  BY <1>1 DEF Read, OpenForRead, ReadFirst, ReadSecond, ReturnRead
<1>5. Reads' = [Reads EXCEPT ![r] = ReadPhase(r)'] /\ Reads[r] = ReadPhase(r)
  <2>1. \A q \in Reader \ {r} : ReadPhase(q)' = ReadPhase(q)
    BY <1>2, <1>4 DEF ReadPhase, ReaderAt, files, Decode
  <2> QED
    BY <2>1 DEF Reads
<1>6. CASE OpenForRead(r)
  <2>1. readers[r].pc = "idle" /\ readers[r].payload = NoPayload /\ target # NoInode
    BY <1>1, <1>6 DEF OpenForRead, ReaderAt, ReaderOK
  <2>2. readers'[r] = [pc |-> "opened", inode |-> target, payload |-> NoPayload]
    BY <1>1, <1>6 DEF OpenForRead
  <2>3. Stored = Decode(content[target]) /\ Stored # NoPayload
    BY <1>1, <2>1 DEF Stored, NamesOK, Whole, Decode, NoPayload
  <2>4. ReadPhase(r) = Abstract!Idle
    BY <2>1 DEF ReadPhase, ReaderAt, Abstract!Idle
  <2>5. ReadPhase(r)' = [phase |-> "pending", payload |-> Stored]
    BY <1>2, <2>2, <2>3 DEF ReadPhase, ReaderAt, files, Decode
  <2>6. Abstract!BeginRead(r)
    BY <1>3, <1>5, <2>3, <2>4, <2>5 DEF Abstract!BeginRead, Abstract!Call, Saves, Reads
  <2> QED
    BY <2>6
<1>7. CASE ReadFirst(r)
  <2>1. readers[r].pc = "opened" /\ readers'[r].pc = "half" /\ readers'[r].inode = readers[r].inode
    BY <1>1, <1>7 DEF ReadFirst, ReaderAt, ReaderState
  <2>2. ReadPhase(r)' = ReadPhase(r)
    BY <1>2, <2>1 DEF ReadPhase, ReaderAt, files, Decode
  <2>3. Reads' = Reads
    BY <1>5, <2>2 DEF Reads
  <2> QED
    BY <1>3, <2>3 DEF Abstract!vars, Saves, Reads
<1>8. CASE ReadSecond(r)
  <2> DEFINE i == readers[r].inode
  <2>1. readers[r].pc = "half" /\ i \in Inode /\ readers[r].payload = content[i][1]
    BY <1>1, <1>8 DEF ReadSecond, ReaderAt, ReaderOK
  <2>2. [content[i] EXCEPT ![1] = content[i][1]] = content[i]
    BY <1>1, <2>1
  <2>3. readers'[r] = [pc |-> "read", inode |-> NoInode, payload |-> Decode(content[i])]
    BY <1>1, <1>8, <2>1, <2>2 DEF ReadSecond
  <2>4. ReadPhase(r) = [phase |-> "pending", payload |-> Decode(content[i])]
    BY <2>1 DEF ReadPhase, ReaderAt
  <2>5. ReadPhase(r)' = [phase |-> "read", payload |-> Decode(content[i])]
    BY <2>3 DEF ReadPhase, ReaderAt
  <2>6. [ReadPhase(r) EXCEPT !.phase = "read"] = ReadPhase(r)'
    BY <2>4, <2>5
  <2>7. Abstract!EndRead(r)
    <3>1. Reads[r].phase = "pending"
      BY <1>5, <2>4
    <3>2. Reads' = [Reads EXCEPT ![r].phase = "read"]
      BY <1>5, <2>6
    <3> QED
      BY <1>3, <3>1, <3>2 DEF Abstract!EndRead, Saves, Reads
  <2> QED
    BY <2>7
<1>9. CASE ReturnRead(r)
  <2>1. readers[r].pc = "read" /\ readers'[r] = Done
    BY <1>1, <1>9 DEF ReturnRead, ReaderAt
  <2>2. ReadPhase(r).phase = "read" /\ ReadPhase(r)' = Abstract!Idle
    BY <2>1 DEF ReadPhase, ReaderAt, Done, Abstract!Idle
  <2>3. Abstract!ReturnRead(r)
    BY <1>3, <1>5, <2>2 DEF Abstract!ReturnRead, Saves, Reads
  <2> QED
    BY <2>3
<1> QED
  BY <1>6, <1>7, <1>8, <1>9 DEF Read

\* Calls end with their process; what is stored stays.
LEMMA FailureSimulates ==
    ASSUME StoreFileAssumption, Inv, NameStays, Crash \/ PowerLoss
    PROVE  \E R \in SUBSET Reader : Abstract!Crash(R)
<1>1. \A s \in Saver : savers'[s] = Done
  BY DEF Crash, PowerLoss
<1>2. Saves' = [s \in Saver |-> Abstract!Idle]
  BY <1>1 DEF Saves, SavePhase, At, Done, Abstract!Idle
<1>3. CASE Crash
  <2>1. Stored' = Stored /\ Reads' = Reads
    BY <1>3, StoredStays, ReadsStay DEF Crash, files
  <2>2. Reads = [r \in Reader |-> IF r \in {} THEN Abstract!Idle ELSE Reads[r]]
    BY DEF Reads
  <2>3. Abstract!Crash({})
    BY <1>2, <2>1, <2>2 DEF Abstract!Crash, Saves, Reads
  <2> QED
    BY <2>3
<1>4. CASE PowerLoss
  <2>1. target' = target
    BY <1>4, PowerLossKeeps DEF NameStays, PowerLoss, Inv, NamesOK
  <2>2. Stored' = Stored
    BY <1>4, <2>1, PowerLossKeeps, StoredStays
  <2>3. \A r \in Reader : ReadPhase(r)' = Abstract!Idle
    BY <1>4 DEF PowerLoss, ReadPhase, ReaderAt, Done, Abstract!Idle
  <2>4. Reads' = [r \in Reader |-> IF r \in Reader THEN Abstract!Idle ELSE Reads[r]]
    BY <2>3 DEF Reads
  <2>5. Abstract!Crash(Reader)
    BY <1>2, <2>2, <2>4 DEF Abstract!Crash, Saves, Reads
  <2> QED
    BY <2>5
<1> QED
  BY <1>3, <1>4

\* Every step is one of the atomic store, or is not seen.
LEMMA NextSimulates ==
    ASSUME StoreFileAssumption, OneSaver, NameStays, Inv, Inv', [Next]_vars
    PROVE  [Abstract!Next]_(Abstract!vars)
<1>1. CASE \E s \in Saver : Save(s)
  BY <1>1, SaveSimulates DEF Abstract!Next
<1>2. CASE \E r \in Reader : Read(r)
  BY <1>2, ReadSimulates DEF Abstract!Next
<1>3. CASE Crash \/ PowerLoss
  BY <1>3, FailureSimulates DEF Abstract!Next
<1>4. CASE Mutate \/ Start \/ UNCHANGED vars
  <2>1. UNCHANGED <<files, savers, readers>>
    BY <1>4 DEF Mutate, Start, vars
  <2>2. Stored' = Stored /\ Reads' = Reads
    BY <2>1, StoredStays, ReadsStay DEF files
  <2>3. Saves' = Saves
    BY <2>1 DEF Saves, SavePhase, At
  <2> QED
    BY <2>2, <2>3 DEF Abstract!vars, Saves, Reads
<1> QED
  BY <1>1, <1>2, <1>3, <1>4 DEF Next

\* A save replaces the whole payload at one instant or changes nothing, as it
\* reports, and no read and no restart sees anything else.
THEOREM StoreIsAtomic ==
    ASSUME OneSaver, Flushed, NameStays PROVE Spec => ImplementsAtomicStore
<1>1. Init => Abstract!Init
  BY InitSimulates
<1>2. Inv /\ Inv' /\ [Next]_vars => [Abstract!Next]_(Abstract!vars)
  BY NextSimulates, StoreFileAssumption
<1> QED
  BY <1>1, <1>2, StoreInvariance, PTL DEF Spec, ImplementsAtomicStore, Abstract!Spec
=============================================================================
