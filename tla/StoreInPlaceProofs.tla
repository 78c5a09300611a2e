------------------------- MODULE StoreInPlaceProofs -------------------------
(***************************************************************************)
(* dl_txt_unpack: the store of a loaded instance over itself.  A store     *)
(* leaves in the blob what it made of every word that it came to, and the  *)
(* store over the loaded blob mirrors it step by step: where that one read *)
(* from memory, this one reads the cell that it is about to write, and     *)
(* what it writes there is what was there before the load.                 *)
(***************************************************************************)
EXTENDS StoreProofs

(* A call that has an offset, or waits for one, is at a member that needs  *)
(* it.                                                                     *)
Awaits(k) ==
  stack[k].offset # 0 \/ k < Len(stack) =>
    stack[k].at <= Len(stack[k].members) /\ MemberAt(k).kind # "data"
FramesInv == \A k \in DOMAIN stack : Awaits(k)

(* What is remembered of a pointee and of a string.                        *)
LEMMA Remembered ==
  ASSUME TypeOK
  PROVE  /\ \A i \in DOMAIN written : written[i].ptr \in Nat /\ written[i].pos \in Positions
         /\ \A i \in DOMAIN strings : /\ strings[i].str \in Nat /\ strings[i].text \in Cells
                                      /\ strings[i].offset \in Positions
         /\ DOMAIN written = 1..Len(written) /\ Len(written) \in Nat
         /\ DOMAIN strings = 1..Len(strings) /\ Len(strings) \in Nat
<1>1. PICK S : S = [ptr : Nat, pos : Positions]
  OBVIOUS
<1>2. PICK T : T = [str : Nat, text : Cells, offset : Positions]
  OBVIOUS
<1>3. written \in Seq(S) /\ strings \in Seq(T)
  BY <1>1, <1>2 DEF TypeOK
<1>4. /\ \A i \in DOMAIN written : written[i] \in S
      /\ \A i \in DOMAIN strings : strings[i] \in T
      /\ DOMAIN written = 1..Len(written) /\ Len(written) \in Nat
      /\ DOMAIN strings = 1..Len(strings) /\ Len(strings) \in Nat
  BY <1>3
<1>. QED  BY <1>1, <1>2, <1>4

(* Only the innermost call changes.                                        *)
LEMMA TopFrames ==
  ASSUME TypeOK, Running, FramesInv, Len(stack)' = Len(stack), DOMAIN stack' = DOMAIN stack,
         \A k \in DOMAIN stack : k # Len(stack) => stack'[k] = stack[k],
         Awaits(Len(stack))'
  PROVE  FramesInv'
<1>1. Len(stack) \in DOMAIN stack /\ DOMAIN stack = 1..Len(stack) /\ Len(stack) \in Nat
  BY MemberIsRead, TopIsCall
<1>. QED  BY <1>1 DEF FramesInv, Awaits, MemberAt

(* A call is made for a member that needs it.                              *)
LEMMA CallFrames ==
  ASSUME TypeOK, Running, FramesInv, Member.kind # "data",
         NEW from \in Nat, NEW to \in Positions, NEW members \in Seq(MemberDescs),
         stack' = Append(stack, Call(from, to, members))
  PROVE  FramesInv'
<1>1. /\ Len(stack') = Len(stack) + 1 /\ \A k \in DOMAIN stack : stack'[k] = stack[k]
      /\ stack'[Len(stack) + 1] = Call(from, to, members)
      /\ DOMAIN stack' = 1..(Len(stack) + 1) /\ DOMAIN stack = 1..Len(stack) /\ Len(stack) \in Nat
  BY CallShape, Zenon
<1>2. /\ Top = stack[Len(stack)] /\ Top.at <= Len(Top.members) /\ Len(stack) \in DOMAIN stack
      /\ Member = MemberAt(Len(stack))
  BY MemberIsRead, TopIsCall DEF Running, Member, MemberAt
<1>3. Call(from, to, members).offset = 0
  BY DEF Call
<1>6. PICK n \in Nat : n = Len(stack)
  BY <1>1
<1>4. Awaits(n + 1)'
  BY <1>1, <1>3, <1>6 DEF Awaits
<1>5. ASSUME NEW k \in DOMAIN stack
      PROVE  Awaits(k)'
  <2>1. CASE k = Len(stack)
    BY <1>1, <1>2, <2>1 DEF Awaits, MemberAt
  <2>2. CASE k < Len(stack)
    BY <1>1, <2>2 DEF FramesInv, Awaits, MemberAt
  <2>. QED  BY <1>1, <2>1, <2>2
<1>. QED  BY <1>1, <1>4, <1>5, <1>6 DEF FramesInv

(* FramesInv is inductive, next to RoomKept.                               *)
LEMMA NextFrames ==
  ASSUME TypeOK, RoomKept, FramesInv, [Next]_vars
  PROVE  FramesInv'
<1>1. CASE UNCHANGED vars
  BY <1>1 DEF vars, FramesInv, Awaits, MemberAt
<1>2. CASE RefuseBuffer
  BY <1>2 DEF RefuseBuffer, FramesInv, Awaits, MemberAt
<1>3. CASE StoreDone \/ StoreWithNeededSize \/ StoreInPlace
  <2>1. DOMAIN stack' = {}
    BY <1>3 DEF StoreDone, StoreWithNeededSize, StoreInPlace, NewContext
  <2>. QED  BY <2>1 DEF FramesInv
<1>4. CASE StoreRoot
  <2>1. PICK a : stack' = <<Call(a, HeaderCells, Members[Root])>>
    BY <1>4 DEF StoreRoot
  <2>2. DOMAIN stack' = {1} /\ Len(stack') = 1 /\ stack'[1].offset = 0
    BY <2>1 DEF Call
  <2>. QED  BY <2>2 DEF FramesInv, Awaits
<1>5. CASE StoreValue \/ StoreOffset
  <2>1. Running /\ stack' = NextMember
    BY <1>5 DEF StoreValue, StoreOffset
  <2>2. /\ Len(stack') = Len(stack) /\ DOMAIN stack' = DOMAIN stack
        /\ \A k \in DOMAIN stack : k # Len(stack) => stack'[k] = stack[k]
        /\ stack'[Len(stack)].offset = 0
    <3>1. NextMember \in Seq(Calls) /\ stack \in Seq(Calls)
      BY <2>1, NextMemberShape DEF TypeOK
    <3>. QED  BY <2>1, <3>1, NextMemberShape
  <2>3. Awaits(Len(stack))'
    BY <2>2, MemberIsRead, TopIsCall, <2>1 DEF Awaits
  <2>. QED  BY <2>1, <2>2, <2>3, TopFrames
<1>6. CASE FindString \/ FindPointee
  <2>1. Running /\ Member.kind # "data"
    BY <1>6 DEF FindString, FindPointee, Refers
  <2>2. PICK o \in Positions : stack' = WithOffset(o)
    <3>1. CASE FindPointee
      <4>1. PICK i \in DOMAIN written : stack' = WithOffset(written[i].pos)
        BY <3>1 DEF FindPointee, WrittenAt
      <4>. QED  BY <4>1, Remembered
    <3>2. CASE FindString /\ KnownString
      <4>1. PICK i \in DOMAIN strings : stack' = WithOffset(strings[i].offset)
        BY <3>2 DEF KnownString, SameStrings
      <4>. QED  BY <4>1, Remembered
    <3>3. CASE FindString /\ AppendString
      <4>1. end + 1 <= LastCell + 1 /\ end \in HeaderCells..(LastCell + 1)
        BY <3>3 DEF AppendString, Room, TypeOK
      <4>. QED  BY <3>3, <4>1, Bounds DEF AppendString
    <3>. QED  BY <1>6, <3>1, <3>2, <3>3 DEF FindString
  <2>3. /\ Len(stack') = Len(stack) /\ DOMAIN stack' = DOMAIN stack
        /\ \A k \in DOMAIN stack : k # Len(stack) => stack'[k] = stack[k]
        /\ stack'[Len(stack)] = [Top EXCEPT !.offset = o]
    <3>1. WithOffset(o) \in Seq(Calls) /\ stack \in Seq(Calls)
      BY <2>1, WithOffsetShape DEF TypeOK
    <3>. QED  BY <2>1, <2>2, <3>1, WithOffsetShape
  <2>4. /\ stack'[Len(stack)].at = Top.at /\ stack'[Len(stack)].members = Top.members
        /\ Top.at <= Len(Top.members)
    BY <2>1, <2>3, MemberIsRead, TopIsCall DEF Calls, Running
  <2>5. Awaits(Len(stack))'
    BY <2>1, <2>3, <2>4 DEF Awaits, MemberAt, Member
  <2>. QED  BY <2>1, <2>3, <2>5, TopFrames
<1>7. CASE StorePointee \/ StoreArray
  <2>1. Running /\ Member.kind # "data" /\ Readable(Value.v)
    BY <1>7 DEF StorePointee, StoreArray, Refers
  <2>2. PICK members \in Seq(MemberDescs) :
          members # <<>> /\ Room(Len(members)) /\ stack' = Append(stack, Call(Value.v, end, members))
    <3>1. CASE StorePointee
      BY <2>1, <3>1, MemberIsRead, MembersOfType DEF StorePointee, MemberDescs
    <3>2. CASE StoreArray
      <4>1. Repeat(Members[Member.of], Member.count) \in Seq(MemberDescs)
            /\ Len(Repeat(Members[Member.of], Member.count)) # 0
        BY <2>1, MemberIsRead, MembersOfArray DEF MemberDescs
      <4>2. Repeat(Members[Member.of], Member.count) # <<>>
        BY <4>1
      <4>. QED  BY <3>2, <4>1, <4>2 DEF StoreArray
    <3>. QED  BY <1>7, <3>1, <3>2
  <2>3. Value.v \in Nat /\ end \in Positions
    <3>1. Len(members) \in Nat \ {0} /\ end \in HeaderCells..(LastCell + 1)
      BY <2>2 DEF TypeOK
    <3>2. end + Len(members) <= LastCell + 1
      BY <2>2 DEF Room
    <3>. QED  BY <2>1, <3>1, <3>2, Bounds, ReadIsCell
  <2>. QED  BY <2>1, <2>2, <2>3, CallFrames
<1>8. CASE Return
  <2> PICK n : n = Len(stack) - 1
    OBVIOUS
  <2>1. /\ n \in DOMAIN stack /\ stack' \in Seq(Calls) /\ Len(stack') = n
        /\ \A k \in 1..(n - 1) : stack'[k] = stack[k]
        /\ stack'[n] = [stack[n] EXCEPT !.offset = Top.to] /\ stack \in Seq(Calls)
    BY <1>8, ReturnShape DEF TypeOK
  <2>2. stack'[n].at = stack[n].at /\ stack'[n].members = stack[n].members
    BY <2>1, CallFacts DEF Calls
  <2>3. Awaits(n)'
    BY <2>1, <2>2 DEF FramesInv, Awaits, MemberAt
  <2>4. ASSUME NEW k \in 1..(n - 1)
        PROVE  Awaits(k)'
    <3>1. k \in DOMAIN stack /\ k < Len(stack) /\ stack'[k] = stack[k]
      BY <2>1
    <3>. QED  BY <3>1 DEF FramesInv, Awaits, MemberAt
  <2>5. DOMAIN stack' = 1..n
    BY <2>1
  <2>. QED  BY <2>3, <2>4, <2>5 DEF FramesInv
<1>. QED  BY <1>1, <1>2, <1>3, <1>4, <1>5, <1>6, <1>7, <1>8 DEF Next, StoreStep

-----------------------------------------------------------------------------
(* What a store made of the words that it came to.                         *)

TargetOf(c) == TopOf(c).to + TopOf(c).at - 1
AtMember(c) == c.stack # <<>> /\ TopOf(c).at <= Len(TopOf(c).members)
Copies(m, c) == MemberOf(c).kind = "data" \/ (TopOf(c).offset = 0 /\ WordOf(m, c) = Zero)

(* The offset that the word at c gets in the end.                          *)
GivenTo(m, c) ==
  LET a == WordOf(m, c).v
  IN IF MemberOf(c).kind = "str" /\ SameIn(m, c, a) # {} THEN c.strings[LeastOf(SameIn(m, c, a))].offset
     ELSE IF MemberOf(c).kind = "ptr" /\ WrittenIn(c, a) # {} THEN c.written[LeastOf(WrittenIn(c, a))].pos
     ELSE c.end

(* The word w is at p, behind the end of out_buffer or not; the place o is *)
(* what a call will write to p.                                            *)
Holds(p, w) == p \in filled /\ (p < size => buf[p] = w)
WaitsFor(p, o) ==
  \E k \in DOMAIN stack :
    /\ p = stack[k].to + stack[k].at - 1
    /\ stack[k].at <= Len(stack[k].members)
    /\ o = IF k = Len(stack) THEN stack[k].offset ELSE stack[k + 1].to

ReferenceMade(m, c) ==
  LET word == WordOf(m, c)
      kind == MemberOf(c).kind
  IN /\ word.tag = "addr" /\ kind \in {"str", "ptr", "array"}
     /\ GivenTo(m, c) \in Positions \ {0}
     /\ Holds(TargetOf(c), Cell("off", GivenTo(m, c))) \/ WaitsFor(TargetOf(c), GivenTo(m, c))
     /\ kind = "str" => /\ m[word.v] \in MemoryCells
                        /\ SameIn(m, c, word.v) = {} => Holds(c.end, m[word.v])
WordMade(m, c) ==
  IF Copies(m, c) THEN WordOf(m, c) \in MemoryCells /\ Holds(TargetOf(c), WordOf(m, c))
  ELSE IF TopOf(c).offset # 0 THEN Holds(TargetOf(c), Cell("off", TopOf(c).offset))
  ELSE ReferenceMade(m, c)
StringsMade(m, c) ==
  \A i \in DOMAIN c.strings :
    /\ c.strings[i].text = m[c.strings[i].str]
    /\ c.strings[i].text \in MemoryCells
    /\ Holds(c.strings[i].offset, c.strings[i].text)
Made(m, c) == StringsMade(m, c) /\ (AtMember(c) => WordMade(m, c))

(* What is written is not written again.                                   *)
WordsStay == /\ size' = size /\ filled \subseteq filled'
             /\ \A p \in filled : buf'[p] = buf[p]
StoreActs == StoreRoot \/ StoreValue \/ FindString \/ FindPointee \/ StorePointee
               \/ StoreArray \/ StoreOffset \/ Return

(* A write to a new position changes no other.                             *)
LEMMA WriteStays ==
  ASSUME TypeOK, NEW p \in Positions \ filled, NEW c, Write(p, c), size' = size
  PROVE  WordsStay /\ Holds(p, c)'
<1>1. buf \in [Positions -> Cells] /\ filled \subseteq Positions
  BY DEF TypeOK
<1>2. /\ filled' = filled \union {p} /\ buf' = IF p < size THEN [buf EXCEPT ![p] = c] ELSE buf
  BY DEF Write
<1>. QED  BY <1>1, <1>2 DEF WordsStay, Holds

(* A string that is new is written behind the rest.                        *)
LEMMA AppendIsWrite ==
  ASSUME RoomKept, AppendString
  PROVE  end \in Positions \ filled /\ Write(end, Read(Value.v)) /\ end # 0 /\ end \in Nat
<1>1. end + 1 <= LastCell + 1 /\ Write(end, Read(Value.v))
  BY DEF AppendString, Room
<1>2. end \in HeaderCells..(LastCell + 1) /\ filled \subseteq HeaderCells..(end - 1)
  BY DEF RoomKept, TypeOK, RoomInv, Reserved
<1>. QED  BY <1>1, <1>2, Bounds

(* No step of a store writes to what was written.                          *)
LEMMA ActsStay ==
  ASSUME RoomKept, StoreActs
  PROVE  WordsStay
<1>1. TypeOK
  BY DEF RoomKept
<1>2. CASE buf' = buf /\ filled' = filled /\ size' = size
  BY <1>2 DEF WordsStay
<1>3. CASE StoreValue \/ StoreOffset
  <2>1. PICK c : Write(Target, c) /\ Running /\ size' = size
    BY <1>3 DEF StoreValue, StoreOffset
  <2>. QED  BY <1>1, <2>1, TargetIsPending, WriteStays
<1>4. CASE FindString
  <2>1. CASE KnownString
    BY <1>2, <1>4, <2>1 DEF FindString, KnownString
  <2>2. CASE AppendString
    BY <1>1, <1>4, <2>2, AppendIsWrite, WriteStays DEF FindString
  <2>. QED  BY <1>4, <2>1, <2>2 DEF FindString
<1>5. CASE StoreRoot \/ FindPointee \/ StorePointee \/ StoreArray \/ Return
  BY <1>2, <1>5 DEF StoreRoot, FindPointee, StorePointee, StoreArray, Return
<1>. QED  BY <1>3, <1>4, <1>5 DEF StoreActs

(* What was written stays.                                                 *)
LEMMA HeldStays ==
  ASSUME WordsStay, NEW p, NEW w, Holds(p, w)
  PROVE  Holds(p, w)'
BY DEF WordsStay, Holds

(* What a call below waits for it waits for until the call above returns.  *)
LEMMA BelowWaits ==
  ASSUME NEW p, NEW o, NEW k \in DOMAIN stack,
         k # Len(stack), stack[k].at <= Len(stack[k].members),
         p = stack[k].to + stack[k].at - 1, o = stack[k + 1].to,
         k \in DOMAIN stack', k # Len(stack'),
         stack'[k] = stack[k], stack'[k + 1].to = stack[k + 1].to
  PROVE  WaitsFor(p, o)'
BY DEF WaitsFor

(* A place that is waited for is written, or still waited for.             *)
LEMMA WaitStays ==
  ASSUME RoomKept, FramesInv, StoreActs, NEW p, NEW o, o # 0, WaitsFor(p, o)
  PROVE  Holds(p, Cell("off", o))' \/ WaitsFor(p, o)'
<1>1. TypeOK
  BY DEF RoomKept
<1>2. PICK k \in DOMAIN stack :
        /\ p = stack[k].to + stack[k].at - 1 /\ stack[k].at <= Len(stack[k].members)
        /\ o = IF k = Len(stack) THEN stack[k].offset ELSE stack[k + 1].to
  BY DEF WaitsFor
<1>3. PICK n : n = Len(stack)
  OBVIOUS
<1>4. /\ stack # <<>> /\ n \in Nat \ {0} /\ n \in DOMAIN stack /\ DOMAIN stack = 1..n
      /\ Top = stack[n] /\ k \in 1..n /\ stack \in Seq(Calls)
  <2>1. stack # <<>> /\ stack \in Seq(Calls)
    BY <1>1, <1>2 DEF TypeOK
  <2>. QED  BY <1>1, <1>2, <1>3, <2>1, TopIsCall
<1>5. CASE StoreValue \/ StoreOffset
  <2>1. Running /\ stack' = NextMember
    BY <1>5 DEF StoreValue, StoreOffset
  <2>2. /\ \A l \in 1..n : l # n => stack'[l] = stack[l]
        /\ stack'[n].to = stack[n].to /\ stack' \in Seq(Calls) /\ Len(stack') = n
    BY <1>1, <1>3, <1>4, <2>1, NextMemberShape
  <2>3. CASE k # n
    <3>1. stack'[k + 1].to = stack[k + 1].to /\ k \in DOMAIN stack'
      BY <1>4, <2>2, <2>3
    <3>. QED  BY <1>2, <1>3, <1>4, <2>2, <2>3, <3>1, BelowWaits
  <2>4. CASE k = n
    <3>1. o = Top.offset /\ p = Target
      BY <1>2, <1>3, <1>4, <2>4 DEF Target
    <3>2. Member.kind # "data"
      BY <1>3, <1>4, <3>1 DEF FramesInv, Awaits, MemberAt, Member
    <3>3. StoreOffset /\ Write(p, Cell("off", o)) /\ size' = size
      BY <1>5, <3>1, <3>2 DEF StoreValue, StoreOffset
    <3>. QED  BY <1>1, <2>1, <3>1, <3>3, TargetIsPending, WriteStays
  <2>. QED  BY <2>3, <2>4
<1>6. CASE FindString \/ FindPointee
  <2>1. Running /\ Top.offset = 0
    BY <1>6 DEF FindString, FindPointee, Refers
  <2>2. PICK q : stack' = WithOffset(q)
    BY <1>6 DEF FindString, FindPointee, KnownString, AppendString
  <2>3. k # n
    BY <1>2, <1>3, <1>4, <2>1
  <2>4. Len(stack') = Len(stack) /\ DOMAIN stack' = DOMAIN stack /\ stack' \in Seq(Calls)
    BY <1>4, <2>2, <1>6, NextRoom DEF WithOffset, RoomKept, TypeOK, Next, StoreStep
  <2>5. /\ \A l \in 1..n : l # n => stack'[l] = stack[l]
        /\ stack'[n].to = stack[n].to
    <3>1. stack' = [stack EXCEPT ![n].offset = q]
      BY <1>3, <2>2 DEF WithOffset
    <3>2. \A l \in 1..n : l # n => stack'[l] = stack[l]
      BY <1>4, <3>1
    <3>3. stack'[n] = [stack[n] EXCEPT !.offset = q] /\ stack[n] \in Calls
      BY <1>4, <3>1
    <3>. QED  BY <3>2, <3>3 DEF Calls
  <2>6. stack'[k + 1].to = stack[k + 1].to /\ k \in DOMAIN stack'
    BY <1>4, <2>3, <2>4, <2>5
  <2>. QED  BY <1>2, <1>3, <1>4, <2>3, <2>4, <2>5, <2>6, BelowWaits
<1>7. CASE StorePointee \/ StoreArray
  <2>1. Running /\ Top.offset = 0
    BY <1>7 DEF StorePointee, StoreArray, Refers
  <2>2. PICK call : stack' = Append(stack, call)
    BY <1>7 DEF StorePointee, StoreArray
  <2>3. k # n
    BY <1>2, <1>3, <1>4, <2>1
  <2>4. /\ Len(stack') = n + 1 /\ k \in DOMAIN stack' /\ stack'[k] = stack[k]
        /\ stack'[k + 1] = stack[k + 1]
    BY <1>3, <1>4, <2>2, <2>3
  <2>. QED  BY <1>2, <1>3, <1>4, <2>3, <2>4, BelowWaits
<1>8. CASE Return
  <2>1. /\ n - 1 \in DOMAIN stack /\ stack' \in Seq(Calls) /\ Len(stack') = n - 1
        /\ \A l \in 1..(n - 2) : stack'[l] = stack[l]
        /\ stack'[n - 1] = [stack[n - 1] EXCEPT !.offset = Top.to]
        /\ Top.at > Len(Top.members)
    <3>1. n - 1 - 1 = n - 2
      BY <1>4
    <3>. QED  BY <1>1, <1>3, <1>8, <3>1, ReturnShape DEF Return
  <2>2. k # n
    <3>1. Top.at \in Nat /\ Len(Top.members) \in Nat
      BY <1>1, <1>4, TopIsCall
    <3>. QED  BY <1>2, <1>4, <2>1, <3>1
  <2>3. /\ stack'[n - 1].to = stack[n - 1].to /\ stack'[n - 1].at = stack[n - 1].at
        /\ stack'[n - 1].members = stack[n - 1].members /\ stack'[n - 1].offset = Top.to
    BY <1>1, <2>1, CallFacts DEF Calls
  <2>4. CASE k = n - 1
    <3>1. o = Top.to
      BY <1>2, <1>3, <1>4, <2>2, <2>4
    <3>2. k \in DOMAIN stack' /\ k = Len(stack')
      BY <1>4, <2>1, <2>4
    <3>. QED  BY <1>2, <2>3, <2>4, <3>1, <3>2 DEF WaitsFor
  <2>5. CASE k # n - 1
    <3>1. /\ k \in 1..(n - 2) /\ k \in DOMAIN stack' /\ k # Len(stack') /\ k # Len(stack)
          /\ stack'[k] = stack[k]
      BY <1>3, <1>4, <2>1, <2>2, <2>5
    <3>2. stack'[k + 1].to = stack[k + 1].to
      <4>1. k + 1 = n - 1 \/ k + 1 \in 1..(n - 2)
        BY <1>4, <3>1
      <4>. QED  BY <2>1, <2>3, <4>1
    <3>3. o = stack[k + 1].to
      BY <1>2, <3>1
    <3>. QED  BY <1>2, <3>1, <3>2, <3>3, BelowWaits
  <2>. QED  BY <2>4, <2>5
<1>9. CASE StoreRoot
  BY <1>4, <1>9 DEF StoreRoot
<1>. QED  BY <1>5, <1>6, <1>7, <1>8, <1>9 DEF StoreActs

(* What a store made of a word it came to, it keeps.                       *)
LEMMA MadeStays ==
  ASSUME RoomKept, FramesInv, StoreActs, NEW m, NEW c, Made(m, c)
  PROVE  Made(m, c)'
<1>1. WordsStay
  BY ActsStay
<1>2. StringsMade(m, c)'
  BY <1>1, HeldStays DEF Made, StringsMade
<1>3. ASSUME AtMember(c)
      PROVE  WordMade(m, c)'
  <2>1. WordMade(m, c)
    BY <1>3 DEF Made
  <2>2. PICK p : p = TargetOf(c)
    OBVIOUS
  <2>3. PICK o : o = GivenTo(m, c)
    OBVIOUS
  <2>4. ReferenceMade(m, c) => ReferenceMade(m, c)'
    <3> SUFFICES ASSUME ReferenceMade(m, c) PROVE ReferenceMade(m, c)'
      OBVIOUS
    <3>1. o # 0 /\ (Holds(p, Cell("off", o)) \/ WaitsFor(p, o))
      BY <2>2, <2>3 DEF ReferenceMade
    <3>2. Holds(p, Cell("off", o))' \/ WaitsFor(p, o)'
      BY <1>1, <3>1, WaitStays, HeldStays
    <3>3. \A w : Holds(c.end, w) => Holds(c.end, w)'
      BY <1>1, HeldStays
    <3>. QED  BY <2>2, <2>3, <3>2, <3>3 DEF ReferenceMade
  <2>5. \A w : Holds(p, w) => Holds(p, w)'
    BY <1>1, HeldStays
  <2>. QED  BY <2>1, <2>2, <2>4, <2>5 DEF WordMade
<1>. QED  BY <1>2, <1>3 DEF Made

(* The memory and the words that the current config is about.              *)
LEMMA CurrentWord ==
  ASSUME RoomKept, ~inPlace, Running, NEW m, m = origin, NEW c, c = Config
  PROVE  /\ TargetOf(c) = Target /\ MemberOf(c) = Member /\ TopOf(c) = Top
         /\ WordOf(m, c) = Value /\ Value \in MemoryCells
         /\ c.end = end /\ c.strings = strings /\ c.written = written /\ c.stack = stack
         /\ Target \in Positions \ filled
<1>1. TypeOK /\ Value = origin[Source] /\ Value \in MemoryCells
  BY MemberIsRead DEF RoomKept
<1>2. /\ c.end = end /\ c.strings = strings /\ c.written = written /\ c.stack = stack
      /\ TopOf(c) = Top /\ MemberOf(c) = Member
  BY ConfigFields
<1>. QED  BY <1>1, <1>2, TargetIsPending DEF TargetOf, Target, WordOf, Source

(* An offset that the innermost call was given waits for its word.         *)
LEMMA GivenWaits ==
  ASSUME TypeOK, Running, NEW p, p = Target, NEW o \in Positions, stack' = WithOffset(o)
  PROVE  WaitsFor(p, o)'
<1>1. PICK n : n = Len(stack)
  OBVIOUS
<1>2. /\ n \in DOMAIN stack /\ Top = stack[n] /\ Top \in Calls /\ Top.at <= Len(Top.members)
  BY <1>1, MemberIsRead, TopIsCall DEF Running
<1>3. /\ stack' \in Seq(Calls) /\ Len(stack') = n /\ stack'[n] = [Top EXCEPT !.offset = o]
      /\ stack \in Seq(Calls)
  BY <1>1, WithOffsetShape DEF TypeOK
<1>4. /\ stack'[n].to = Top.to /\ stack'[n].at = Top.at /\ stack'[n].members = Top.members
      /\ stack'[n].offset = o
  BY <1>2, <1>3 DEF Calls
<1>5. n \in DOMAIN stack'
  BY <1>1, <1>2, <1>3
<1>. QED  BY <1>2, <1>3, <1>4, <1>5 DEF WaitsFor, Target

(* So does the place of a call that is made.                               *)
LEMMA CalledWaits ==
  ASSUME TypeOK, Running, NEW p, p = Target, NEW o \in Positions,
         NEW from \in Nat, NEW members \in Seq(MemberDescs),
         stack' = Append(stack, Call(from, o, members))
  PROVE  WaitsFor(p, o)'
<1>1. PICK n : n = Len(stack)
  OBVIOUS
<1>2. /\ n \in DOMAIN stack /\ Top = stack[n] /\ Top \in Calls /\ Top.at <= Len(Top.members)
      /\ n \in Nat
  BY <1>1, MemberIsRead, TopIsCall DEF Running
<1>3. /\ n \in DOMAIN stack' /\ Len(stack') = n + 1 /\ stack'[n] = Top
      /\ stack'[n + 1] = Call(from, o, members)
  BY <1>1, <1>2, CallShape
<1>4. stack'[n + 1].to = o /\ n # Len(stack')
  BY <1>2, <1>3 DEF Call
<1>. QED  BY <1>2, <1>3, <1>4 DEF WaitsFor, Target

(* What each step made of its word: a value,                               *)
LEMMA ValueMade ==
  ASSUME RoomKept, ~inPlace, StoreValue, NEW m, m = origin, NEW c, c = Config
  PROVE  WordMade(m, c)'
<1>1. TypeOK /\ Running /\ Write(Target, Value) /\ size' = size
      /\ (Member.kind = "data" \/ (Value = Zero /\ Top.offset = 0))
  BY DEF RoomKept, StoreValue
<1>2. PICK p : p = Target
  OBVIOUS
<1>3. PICK w : w = Value
  OBVIOUS
<1>4. TargetOf(c) = p /\ WordOf(m, c) = w /\ w \in MemoryCells /\ Copies(m, c)
  BY <1>1, <1>2, <1>3, CurrentWord DEF Copies
<1>5. Holds(p, w)'
  BY <1>1, <1>2, <1>3, CurrentWord, WriteStays
<1>. QED  BY <1>4, <1>5 DEF WordMade

(* an offset,                                                              *)
LEMMA OffsetMade ==
  ASSUME RoomKept, FramesInv, ~inPlace, StoreOffset, NEW m, m = origin, NEW c, c = Config
  PROVE  WordMade(m, c)'
<1>1. /\ TypeOK /\ Running /\ Write(Target, Cell("off", Top.offset)) /\ size' = size
      /\ Top.offset # 0
  BY DEF RoomKept, StoreOffset
<1>2. PICK p : p = Target
  OBVIOUS
<1>3. PICK o : o = Top.offset
  OBVIOUS
<1>4. TargetOf(c) = p /\ TopOf(c).offset = o /\ MemberOf(c) = Member
  BY <1>1, <1>2, <1>3, CurrentWord
<1>5. Member.kind # "data"
  BY <1>1, MemberIsRead, TopIsCall DEF FramesInv, Awaits, MemberAt, Member
<1>6. ~Copies(m, c)
  BY <1>1, <1>3, <1>4, <1>5 DEF Copies
<1>7. Holds(p, Cell("off", o))'
  BY <1>1, <1>2, <1>3, CurrentWord, WriteStays
<1>. QED  BY <1>1, <1>3, <1>4, <1>6, <1>7 DEF WordMade

(* A reference gets the offset of what it refers to, once it has a place.  *)
LEMMA Referring ==
  ASSUME RoomKept, ~inPlace, NEW kind \in {"str", "ptr", "array"}, Refers(kind),
         NEW m, m = origin, NEW c, c = Config
  PROVE  /\ Running /\ MemberOf(c).kind = kind /\ ~Copies(m, c) /\ TopOf(c).offset = 0
         /\ WordOf(m, c).tag = "addr" /\ WordOf(m, c) = Value
         /\ Value.v \in Nat /\ Value.v \in DOMAIN m /\ m[Value.v] \in MemoryCells
         /\ Read(Value.v) = m[Value.v]
<1>1. /\ TypeOK /\ Running /\ Member.kind = kind /\ Top.offset = 0 /\ Value.tag = "addr"
      /\ Readable(Value.v)
  BY DEF RoomKept, Refers
<1>2. Value # Zero
  BY <1>1 DEF Zero, Cell
<1>. QED  BY <1>1, <1>2, CurrentWord, ReadIsCell DEF Copies

(* the offset of a string,                                                 *)
LEMMA StringMade ==
  ASSUME RoomKept, ~inPlace, FindString, NEW m, m = origin, NEW c, c = Config
  PROVE  WordMade(m, c)'
<1>1. TypeOK /\ PlacesInv /\ Refers("str") /\ size' = size /\ IF SameStrings # {} THEN KnownString ELSE AppendString
  BY DEF RoomKept, FindString
<1>2. /\ Running /\ MemberOf(c).kind = "str" /\ ~Copies(m, c) /\ TopOf(c).offset = 0
      /\ WordOf(m, c).tag = "addr" /\ WordOf(m, c) = Value
      /\ m[Value.v] \in MemoryCells /\ Read(Value.v) = m[Value.v]
  BY <1>1, Referring
<1>3. SameIn(m, c, Value.v) = SameStrings
  BY <1>1, ConfigFields DEF SameIn, SameStrings, SameString, Read
<1>4. PICK p : p = Target
  OBVIOUS
<1>5. PICK a : a = Value.v
  OBVIOUS
<1>6. TargetOf(c) = p
  BY <1>2, <1>4, CurrentWord
<1>7. CASE SameStrings # {}
  <2>1. PICK i \in SameStrings : /\ \A j \in SameStrings : i <= j
                                 /\ stack' = WithOffset(strings[i].offset)
    BY <1>1, <1>7 DEF KnownString
  <2>2. SameStrings \in SUBSET Nat /\ SameStrings \subseteq DOMAIN strings
    BY <1>1, Remembered DEF SameStrings
  <2>3. LeastOf(SameStrings) = i
    BY <2>1, <2>2, LeastIs
  <2>4. PICK o : o = strings[i].offset
    OBVIOUS
  <2>5. GivenTo(m, c) = o
    BY <1>2, <1>3, <1>7, <2>3, <2>4, ConfigFields DEF GivenTo
  <2>6. o \in Positions \ {0}
    <3>1. o \in Positions /\ o \in filled
      BY <1>1, <2>1, <2>2, <2>4, Remembered DEF PlacesInv
    <3>2. filled \subseteq Reserved
      BY DEF RoomKept, RoomInv
    <3>. QED  BY <3>1, <3>2, Bounds DEF Reserved
  <2>7. WaitsFor(p, o)'
    BY <1>1, <1>2, <1>4, <2>1, <2>4, <2>6, GivenWaits
  <2>8. ReferenceMade(m, c)'
    BY <1>2, <1>3, <1>6, <1>7, <2>5, <2>6, <2>7 DEF ReferenceMade
  <2>. QED  BY <1>2, <2>8 DEF WordMade
<1>8. CASE SameStrings = {}
  <2>1. AppendString
    BY <1>1, <1>8
  <2>2. PICK o : o = end
    OBVIOUS
  <2>3. o \in Positions \ filled /\ Write(o, m[a]) /\ o # 0 /\ stack' = WithOffset(o)
    BY <1>2, <1>5, <2>1, <2>2, AppendIsWrite DEF AppendString
  <2>4. c.end = o /\ GivenTo(m, c) = o
    BY <1>2, <1>3, <1>8, <2>2, ConfigFields DEF GivenTo
  <2>5. Holds(o, m[a])'
    BY <1>1, <2>3, WriteStays
  <2>6. WaitsFor(p, o)'
    BY <1>1, <1>2, <1>4, <2>3, GivenWaits
  <2>7. ReferenceMade(m, c)'
    BY <1>2, <1>5, <1>6, <2>3, <2>4, <2>5, <2>6 DEF ReferenceMade
  <2>. QED  BY <1>2, <2>7 DEF WordMade
<1>. QED  BY <1>7, <1>8

(* of a pointee that has its place,                                        *)
LEMMA PointeeMade ==
  ASSUME RoomKept, ~inPlace, FindPointee, NEW m, m = origin, NEW c, c = Config
  PROVE  WordMade(m, c)'
<1>1. TypeOK /\ PlacesInv /\ Refers("ptr")
  BY DEF RoomKept, FindPointee
<1>2. /\ Running /\ MemberOf(c).kind = "ptr" /\ ~Copies(m, c) /\ TopOf(c).offset = 0
      /\ WordOf(m, c).tag = "addr" /\ WordOf(m, c) = Value
  BY <1>1, Referring
<1>3. WrittenIn(c, Value.v) = WrittenAt
  BY ConfigFields DEF WrittenIn, WrittenAt
<1>4. PICK p : p = Target
  OBVIOUS
<1>5. TargetOf(c) = p
  BY <1>2, <1>4, CurrentWord
<1>6. PICK i \in WrittenAt : /\ \A j \in WrittenAt : i <= j
                             /\ stack' = WithOffset(written[i].pos)
  BY DEF FindPointee
<1>7. WrittenAt \in SUBSET Nat /\ WrittenAt \subseteq DOMAIN written
  BY <1>1, Remembered DEF WrittenAt
<1>8. LeastOf(WrittenAt) = i
  BY <1>6, <1>7, LeastIs
<1>9. PICK o : o = written[i].pos
  OBVIOUS
<1>10. GivenTo(m, c) = o
  BY <1>2, <1>3, <1>6, <1>8, <1>9, ConfigFields DEF GivenTo
<1>11. o \in Positions \ {0}
  <2>1. o \in Positions /\ o \in Reserved
    BY <1>1, <1>6, <1>7, <1>9, Remembered DEF PlacesInv
  <2>. QED  BY <2>1, Bounds DEF Reserved
<1>12. WaitsFor(p, o)'
  BY <1>1, <1>2, <1>4, <1>6, <1>9, <1>11, GivenWaits
<1>13. ReferenceMade(m, c)'
  BY <1>2, <1>5, <1>10, <1>11, <1>12 DEF ReferenceMade
<1>. QED  BY <1>2, <1>13 DEF WordMade

(* What is appended has its place where the blob ends.                     *)
LEMMA RoomIsPlace ==
  ASSUME TypeOK, NEW members \in Seq(MemberDescs), members # <<>>, Room(Len(members))
  PROVE  end \in Positions \ {0}
<1>1. Len(members) \in Nat \ {0} /\ end + Len(members) <= LastCell + 1
  BY DEF Room
<1>2. end \in HeaderCells..(LastCell + 1)
  BY DEF TypeOK
<1>. QED  BY <1>1, <1>2, Bounds

(* and of a struct or array that gets its place now.                       *)
LEMMA CallMadeWord ==
  ASSUME RoomKept, ~inPlace, StorePointee \/ StoreArray, NEW m, m = origin, NEW c, c = Config
  PROVE  WordMade(m, c)'
<1>1. TypeOK /\ (Refers("ptr") \/ Refers("array"))
  BY DEF RoomKept, StorePointee, StoreArray
<1>2. /\ Running /\ MemberOf(c).kind \in {"ptr", "array"} /\ ~Copies(m, c) /\ TopOf(c).offset = 0
      /\ WordOf(m, c).tag = "addr" /\ WordOf(m, c) = Value /\ Value.v \in Nat
  BY <1>1, Referring
<1>3. PICK members \in Seq(MemberDescs) :
        members # <<>> /\ Room(Len(members)) /\ stack' = Append(stack, Call(Value.v, end, members))
  <2>1. Member \in MemberDescs
    BY <1>1, <1>2, MemberIsRead
  <2>2. CASE StorePointee
    BY <2>1, <2>2, MembersOfType DEF StorePointee, MemberDescs
  <2>3. CASE StoreArray
    <3>1. Repeat(Members[Member.of], Member.count) \in Seq(MemberDescs)
          /\ Len(Repeat(Members[Member.of], Member.count)) # 0
      BY <2>1, MembersOfArray DEF MemberDescs
    <3>2. Repeat(Members[Member.of], Member.count) # <<>>
      BY <3>1
    <3>. QED  BY <2>3, <3>1, <3>2 DEF StoreArray
  <2>. QED  BY <2>2, <2>3
<1>4. PICK o : o = end
  OBVIOUS
<1>5. o \in Positions \ {0}
  BY <1>1, <1>3, <1>4, RoomIsPlace
<1>6. PICK p : p = Target
  OBVIOUS
<1>7. TargetOf(c) = p
  BY <1>2, <1>6, CurrentWord
<1>8. GivenTo(m, c) = o
  <2>1. MemberOf(c).kind = "ptr" => WrittenIn(c, Value.v) = {}
    <3>1. ASSUME MemberOf(c).kind = "ptr" PROVE StorePointee
      BY <3>1, <1>2, CurrentWord DEF StoreArray, Refers
    <3>. QED  BY <3>1, ConfigFields DEF StorePointee, WrittenIn, WrittenAt
  <2>. QED  BY <1>2, <1>4, <2>1, ConfigFields DEF GivenTo
<1>9. WaitsFor(p, o)'
  BY <1>1, <1>2, <1>3, <1>4, <1>5, <1>6, CalledWaits
<1>10. ReferenceMade(m, c)'
  BY <1>2, <1>5, <1>7, <1>8, <1>9 DEF ReferenceMade
<1>. QED  BY <1>2, <1>10 DEF WordMade

(* Every step of a store makes something of the word that it came to.      *)
LEMMA MadeNow ==
  ASSUME RoomKept, WordsInv, FramesInv, ~inPlace, StoreActs, NEW m, m = origin, NEW c, c = Config
  PROVE  Made(m, c)'
<1>1. StringsMade(m, c)'
  <2>1. WordsStay /\ TypeOK /\ PlacesInv
    BY ActsStay DEF RoomKept
  <2>2. c.strings = strings
    BY ConfigFields
  <2>3. ASSUME NEW i \in DOMAIN strings
        PROVE  /\ strings[i].text = m[strings[i].str] /\ strings[i].text \in MemoryCells
               /\ Holds(strings[i].offset, strings[i].text)
    <3>1. /\ strings[i].str \in DOMAIN origin /\ strings[i].text = origin[strings[i].str]
          /\ strings[i].offset < size => buf[strings[i].offset] = strings[i].text
      BY <2>3 DEF WordsInv
    <3>2. strings[i].text \in MemoryCells
      BY <2>1, <3>1, StoreAssumption DEF TypeOK
    <3>3. strings[i].offset \in filled
      BY <2>1, <2>3 DEF PlacesInv
    <3>. QED  BY <3>1, <3>2, <3>3 DEF Holds
  <2>4. PICK s : s = strings
    OBVIOUS
  <2>5. \A i \in DOMAIN s : Holds(s[i].offset, s[i].text) => Holds(s[i].offset, s[i].text)'
    BY <2>1, HeldStays
  <2>. QED  BY <2>2, <2>3, <2>4, <2>5 DEF StringsMade
<1>2. ASSUME AtMember(c)
      PROVE  WordMade(m, c)'
  <2>1. ~StoreRoot
    BY <1>2, ConfigFields DEF AtMember, StoreRoot
  <2>2. ~Return
    <3>1. ASSUME Return PROVE FALSE
      <4>1. TypeOK /\ stack # <<>> /\ Top.at > Len(Top.members) /\ Top.at <= Len(Top.members)
        BY <1>2, <3>1, ConfigFields DEF AtMember, Return, RoomKept
      <4>. QED  BY <4>1, TopIsCall
    <3>. QED  BY <3>1
  <2>. QED
    BY <2>1, <2>2, ValueMade, OffsetMade, StringMade, PointeeMade, CallMadeWord DEF StoreActs
<1>. QED  BY <1>1, <1>2 DEF Made

-----------------------------------------------------------------------------
(* The course of a store from the program's memory: all that it came to it *)
(* made something of.                                                      *)

MadeStep(m, k) ==
  StepOf(m, Run(m)[k]) = Run(m)[k + 1] /\ Made(m, Run(m)[k])
CourseInv ==
  /\ phase = "store" => \E k \in Nat : /\ Run(origin)[k] = Config
                                       /\ \A j \in 0..(k - 1) : MadeStep(origin, j)
  /\ phase = "stored" => /\ filled # {}
                         /\ \E k \in Nat : /\ Ended(Run(origin)[k])
                                           /\ Run(origin)[k].end = end
                                           /\ Run(origin)[k].strings = strings
                                           /\ \A j \in 0..(k - 1) : MadeStep(origin, j)
MemoryCourse == ~inPlace => CourseInv

(* CourseInv, step by step.                                                *)
LEMMA ActsCourse ==
  ASSUME RoomKept, RoomKept', WordsInv, FramesInv, CourseInv, ~inPlace, StoreActs
  PROVE  CourseInv'
<1>1. TypeOK /\ TypeOK'
  BY DEF RoomKept
<1>2. phase = "store" /\ phase' = phase /\ origin' = origin
  BY DEF StoreActs, StoreRoot, StoreValue, FindString, FindPointee, StorePointee, StoreArray,
         StoreOffset, Return, Refers, Running
<1>3. StepOf(origin, Config) = Config'
  BY <1>1, RootStep, WordStep, StringStep, PointeeStep, ArrayStep, ReturnStep DEF StoreActs
<1>4. PICK m : m = origin
  OBVIOUS
<1>5. PICK k \in Nat : Run(m)[k] = Config /\ \A j \in 0..(k - 1) : MadeStep(m, j)
  BY <1>2, <1>4 DEF CourseInv
<1>6. Config \in Configs /\ Config' \in Configs
  BY <1>1, Bounds DEF Config, Configs, TypeOK
<1>7. StepsOf(m)[Config] = Config'
  BY <1>3, <1>4, <1>6 DEF StepsOf
<1>8. Run(m)[k + 1] = Config'
  BY <1>5, <1>7, RunIsIteration
<1>9. MadeStep(m, k)'
  BY <1>3, <1>4, <1>5, <1>8, MadeNow DEF MadeStep
<1>10. \A j \in 0..(k - 1) : MadeStep(m, j)'
  BY <1>5, MadeStays DEF MadeStep
<1>11. \A j \in 0..k : MadeStep(m, j)'
  <2>1. \A j \in 0..k : j = k \/ j \in 0..(k - 1)
    BY <1>5
  <2>. QED  BY <1>9, <1>10, <2>1
<1>12. k + 1 \in Nat /\ k + 1 - 1 = k
  BY <1>5
<1>13. m = origin'
  BY <1>2, <1>4
<1>. QED  BY <1>2, <1>8, <1>11, <1>12, <1>13 DEF CourseInv

(* When the last call is done there is nothing that waits.                 *)
LEMMA DoneMade ==
  ASSUME RoomKept, StoreDone, NEW m, NEW c, Made(m, c)
  PROVE  Made(m, c)'
<1>1. /\ TypeOK /\ Len(stack) = 1 /\ stack # <<>> /\ Top.at > Len(Top.members)
      /\ UNCHANGED <<buf, filled, size>>
  BY DEF RoomKept, StoreDone
<1>2. DOMAIN stack = {1} /\ Top = stack[1] /\ ~(Top.at <= Len(Top.members))
  BY <1>1, TopIsCall
<1>3. \A p, o : ~WaitsFor(p, o)
  BY <1>2 DEF WaitsFor
<1>4. \A p, w : Holds(p, w) => Holds(p, w)'
  BY <1>1 DEF Holds
<1>5. StringsMade(m, c)'
  BY <1>4 DEF Made, StringsMade
<1>6. WordMade(m, c) => WordMade(m, c)'
  <2>1. ReferenceMade(m, c) => ReferenceMade(m, c)'
    BY <1>3, <1>4 DEF ReferenceMade
  <2>. QED  BY <1>4, <2>1 DEF WordMade
<1>. QED  BY <1>5, <1>6 DEF Made

LEMMA DoneCourse ==
  ASSUME RoomKept, CourseInv, ~inPlace, StoreDone
  PROVE  CourseInv'
<1>1. /\ TypeOK /\ phase = "store" /\ Len(stack) = 1 /\ Top.at > Len(Top.members) /\ stack # <<>>
      /\ phase' # "store" /\ UNCHANGED <<origin, end, strings, filled>>
  BY DEF RoomKept, StoreDone, contextVars
<1>2. PICK m : m = origin
  OBVIOUS
<1>3. PICK k \in Nat : Run(m)[k] = Config /\ \A j \in 0..(k - 1) : MadeStep(m, j)
  BY <1>1, <1>2 DEF CourseInv
<1>4. Ended(Run(m)[k]) /\ Run(m)[k].end = end /\ Run(m)[k].strings = strings
  BY <1>1, <1>3, ConfigFields DEF Ended, Top
<1>5. \A j \in 0..(k - 1) : MadeStep(m, j)'
  BY <1>3, DoneMade DEF MadeStep
<1>6. filled # {}
  <2>1. DOMAIN stack = {1} /\ Top = stack[1]
    BY <1>1, TopIsCall
  <2>2. Pending(1) = {}
    <3>1. Top.to \in Nat /\ Top.at \in Nat /\ Len(Top.members) \in Nat
      BY <1>1, <2>1, CallFacts, Bounds
    <3>. QED  BY <1>1, <2>1, <3>1 DEF Pending
  <2>3. stack[1].to \in Reserved /\ \A p \in Reserved : p \in filled \/ \E l \in DOMAIN stack : p \in Pending(l)
    BY <1>1, <2>1 DEF RoomKept, RoomInv
  <2>. QED  BY <2>1, <2>2, <2>3
<1>7. m = origin' /\ end' = end /\ strings' = strings
  BY <1>1, <1>2
<1>. QED  BY <1>1, <1>3, <1>4, <1>5, <1>6, <1>7 DEF CourseInv

(* A store that begins has made nothing.                                   *)
LEMMA NewCourse ==
  ASSUME phase = "store", Config = NewConfig
  PROVE  CourseInv
<1>1. PICK m : m = origin
  OBVIOUS
<1>2. Run(m)[0] = Config /\ 0..(0 - 1) = {}
  BY RunIsIteration
<1>. QED  BY <1>1, <1>2 DEF CourseInv

LEMMA NextCourse ==
  ASSUME RoomKept, RoomKept', MemoryWords, FramesInv, MemoryCourse, [Next]_vars
  PROVE  MemoryCourse'
<1>. SUFFICES ASSUME ~inPlace'
              PROVE  CourseInv'
  BY DEF MemoryCourse
<1>1. ~StoreInPlace
  BY DEF StoreInPlace
<1>2. inPlace' = inPlace
  BY <1>1 DEF Next, StoreStep, RefuseBuffer, StoreRoot, StoreValue, FindString, FindPointee,
     StorePointee, StoreArray, StoreOffset, Return, StoreDone, StoreWithNeededSize, vars
<1>3. ~inPlace /\ CourseInv /\ WordsInv
  BY <1>2 DEF MemoryCourse, MemoryWords
<1>4. CASE UNCHANGED vars
  <2>1. \A m, c : Made(m, c)' <=> Made(m, c)
    BY <1>4 DEF vars, Made, StringsMade, WordMade, ReferenceMade, Holds, WaitsFor
  <2>2. \A m, k : MadeStep(m, k)' <=> MadeStep(m, k)
    BY <2>1 DEF MadeStep
  <2>3. Config' = Config /\ UNCHANGED <<phase, origin, end, strings, filled>>
    BY <1>4 DEF vars, contextVars, Config
  <2>4. PICK m : m = origin
    OBVIOUS
  <2>. QED  BY <1>3, <2>2, <2>3 DEF CourseInv
<1>5. CASE RefuseBuffer
  BY <1>5 DEF RefuseBuffer, CourseInv
<1>6. CASE StoreDone
  BY <1>3, <1>6, DoneCourse
<1>7. CASE StoreWithNeededSize
  <2>1. (phase = "store" /\ Config = NewConfig)'
    BY <1>7 DEF StoreWithNeededSize, NewContext, Config, NewConfig
  <2>. QED  BY <2>1, NewCourse, PTL
<1>8. CASE StoreStep /\ ~RefuseBuffer /\ ~StoreDone
  BY <1>3, <1>8, ActsCourse DEF StoreStep, StoreActs
<1>. QED  BY <1>1, <1>4, <1>5, <1>6, <1>7, <1>8 DEF Next

-----------------------------------------------------------------------------
(* The blob that a store left, and its store over itself.                  *)

(* What a loaded blob has where the blob has x.                            *)
Loaded(x) == IF x.tag = "off" THEN Cell("addr", x.v) ELSE x

(* The blob of e cells has at TargetOf(c) what the store of m made of it.  *)
InBlob(e, p, w) == p \in HeaderCells..(e - 1) /\ blob[p] = w
MadeWord(m, c) ==
  IF Copies(m, c) THEN WordOf(m, c)
  ELSE Cell("off", IF TopOf(c).offset # 0 THEN TopOf(c).offset ELSE GivenTo(m, c))
BlobHasWord(m, c, e) ==
  /\ InBlob(e, TargetOf(c), MadeWord(m, c))
  /\ Copies(m, c) => WordOf(m, c) \in MemoryCells
  /\ ~Copies(m, c) /\ TopOf(c).offset = 0 =>
       /\ WordOf(m, c).tag = "addr" /\ GivenTo(m, c) \in Positions \ {0}
       /\ MemberOf(c).kind \in {"str", "ptr", "array"}
       /\ MemberOf(c).kind = "str" =>
            /\ m[WordOf(m, c).v] \in MemoryCells
            /\ SameIn(m, c, WordOf(m, c).v) = {} => InBlob(e, c.end, m[WordOf(m, c).v])
BlobHasStrings(m, c, e) ==
  \A i \in DOMAIN c.strings :
    /\ c.strings[i].text = m[c.strings[i].str]
    /\ c.strings[i].text \in MemoryCells
    /\ InBlob(e, c.strings[i].offset, c.strings[i].text)
BlobHas(m, c, e) == BlobHasStrings(m, c, e) /\ (AtMember(c) => BlobHasWord(m, c, e))

(* The blob is that of the n steps of a store of m.                        *)
BlobOf(m, n, e) ==
  /\ n \in Nat /\ e \in (HeaderCells + 1)..size
  /\ Ended(Run(m)[n]) /\ Run(m)[n].end = e
  /\ \A k \in 0..(n - 1) : /\ StepOf(m, Run(m)[k]) = Run(m)[k + 1]
                           /\ BlobHas(m, Run(m)[k], e)
  /\ blob \in [Positions -> Cells]
  /\ \A p \in Positions : blob[p].tag = "off" => p \in HeaderCells..(e - 1)
  /\ \A i, j \in DOMAIN Run(m)[n].strings :
       blob[Run(m)[n].strings[i].offset] = blob[Run(m)[n].strings[j].offset] => i = j
  /\ needed # 0 => needed = e

(* A store over the instance mirrors the store that made the blob: where   *)
(* that one read from memory, this one reads where it writes to.           *)
MirrorStack(s, t) ==
  /\ Len(s) = Len(t)
  /\ \A k \in 1..Len(t) : /\ s[k].from = t[k].to /\ s[k].to = t[k].to
                          /\ s[k].members = t[k].members
                          /\ s[k].at = t[k].at /\ s[k].offset = t[k].offset
MirrorWritten(s, t) ==
  /\ Len(s) = Len(t)
  /\ \A i \in 1..Len(t) : s[i].ptr = t[i].pos /\ s[i].pos = t[i].pos
MirrorStrings(s, t) ==
  /\ Len(s) = Len(t)
  /\ \A i \in 1..Len(t) : s[i].str = t[i].offset /\ s[i].offset = t[i].offset /\ s[i].text = t[i].text
Mirrors(c) ==
  /\ MirrorStack(stack, c.stack) /\ end = c.end
  /\ MirrorWritten(written, c.written) /\ MirrorStrings(strings, c.strings)

(* Of the buffer, what was written is the blob again.                      *)
HalfRestored ==
  /\ \A p \in Positions : buf[p] = IF p \in filled THEN blob[p] ELSE Loaded(blob[p])
  /\ \A p \in filled : blob[p].tag = "off" <=> \E i \in DOMAIN ptrs : ptrs[i] = p
Restores(m, n, e) ==
  /\ BlobOf(m, n, e) /\ HalfRestored
  /\ phase \in {"store", "stored"}
  /\ phase = "store" => \E k \in 0..n : Mirrors(Run(m)[k])
  /\ phase = "stored" => end = e /\ MirrorStrings(strings, Run(m)[n].strings)
RestoreInv == inPlace => \E m, n, e : Restores(m, n, e)

(* A blob that is loaded in place was made by a store.                     *)
LEMMA BlobHasMade ==
  ASSUME RoomKept, phase = "stored", filled # {}, ~Dummy, blob' = buf,
         NEW m, NEW c, Made(m, c), NEW e, e = end
  PROVE  BlobHas(m, c, e)'
<1>1. TypeOK /\ filled = HeaderCells..(e - 1) /\ e <= size /\ stack = <<>>
  BY DEF RoomKept, RoomInv, Reserved
<1>2. e \in Nat /\ size \in Nat /\ HeaderCells \in Nat
  BY <1>1, Bounds DEF TypeOK
<1>3. \A p, w : Holds(p, w) => InBlob(e, p, w)'
  BY <1>1, <1>2 DEF Holds, InBlob
<1>4. \A p, o : ~WaitsFor(p, o)
  BY <1>1 DEF WaitsFor
<1>5. BlobHasStrings(m, c, e)'
  BY <1>3 DEF Made, StringsMade, BlobHasStrings
<1>6. ASSUME AtMember(c)
      PROVE  BlobHasWord(m, c, e)'
  <2>1. WordMade(m, c)
    BY <1>6 DEF Made
  <2>2. CASE Copies(m, c)
    BY <1>3, <2>1, <2>2 DEF WordMade, BlobHasWord, MadeWord
  <2>3. CASE ~Copies(m, c) /\ TopOf(c).offset # 0
    BY <1>3, <2>1, <2>3 DEF WordMade, BlobHasWord, MadeWord
  <2>4. CASE ~Copies(m, c) /\ TopOf(c).offset = 0
    BY <1>3, <1>4, <2>1, <2>4 DEF WordMade, ReferenceMade, BlobHasWord, MadeWord
  <2>. QED  BY <2>2, <2>3, <2>4
<1>. QED  BY <1>5, <1>6 DEF BlobHas

(* The loaded blob is that of a store, and its store starts as that one    *)
(* did.                                                                    *)
LEMMA BlobIsLoaded ==
  ASSUME RoomKept, WordsInv, SizeInv, CourseInv, ~inPlace, StoreInPlace
  PROVE  RestoreInv'
<1>1. /\ TypeOK /\ phase = "stored" /\ ~Dummy /\ phase' = "store" /\ NewContext /\ blob' = buf
      /\ buf' = [p \in Positions |-> IF buf[p].tag = "off" THEN Cell("addr", buf[p].v) ELSE buf[p]]
      /\ UNCHANGED <<size, needed>>
  BY DEF StoreInPlace, RoomKept
<1>2. PICK m : m = origin
  OBVIOUS
<1>3. PICK e : e = end
  OBVIOUS
<1>4. PICK s : s = strings
  OBVIOUS
<1>5. PICK n \in Nat : /\ Ended(Run(m)[n]) /\ Run(m)[n].end = e /\ Run(m)[n].strings = s
                       /\ \A j \in 0..(n - 1) : MadeStep(m, j)
  BY <1>1, <1>2, <1>3, <1>4 DEF CourseInv
<1>6. filled # {} /\ filled = HeaderCells..(e - 1) /\ e <= size
  BY <1>1, <1>3 DEF CourseInv, RoomKept, RoomInv, Reserved
<1>7. e \in Nat /\ size \in Nat /\ HeaderCells \in Nat /\ buf \in [Positions -> Cells]
  BY <1>1, <1>3, Bounds DEF TypeOK
<1>8. e \in (HeaderCells + 1)..size'
  <2>1. HeaderCells <= e - 1
    BY <1>6, <1>7
  <2>. QED  BY <1>1, <1>6, <1>7, <2>1
<1>9. \A k \in 0..(n - 1) : /\ StepOf(m, Run(m)[k]) = Run(m)[k + 1]
                            /\ BlobHas(m, Run(m)[k], e)'
  BY <1>1, <1>3, <1>5, <1>6, BlobHasMade DEF MadeStep
<1>10. \A p \in Positions : blob'[p].tag = "off" => p \in HeaderCells..(e - 1)
  <2>1. \A p \in Positions : buf[p].tag = "off" => p \in filled
    <3>1. \A p \in Positions : buf[p].tag = "off" => \E i \in DOMAIN ptrs : ptrs[i] = p
      BY <1>6 DEF WordsInv
    <3>. QED  BY <3>1 DEF RoomKept, PlacesInv
  <2>. QED  BY <1>1, <1>6, <2>1
<1>11. \A i, j \in DOMAIN s : blob'[s[i].offset] = blob'[s[j].offset] => i = j
  <2>1. /\ \A i \in DOMAIN s : s[i].offset \in filled
        /\ \A i \in DOMAIN s : s[i].offset < size => buf[s[i].offset] = s[i].text
        /\ \A i, j \in DOMAIN s : s[i].text = s[j].text => i = j
    BY <1>4 DEF WordsInv, RoomKept, PlacesInv
  <2>2. \A i \in DOMAIN s : s[i].offset < size
    BY <1>6, <1>7, <2>1
  <2>. QED  BY <1>1, <2>1, <2>2
<1>12. needed' # 0 => needed' = e
  <2>1. needed # 0 => TakesSize(m, needed) /\ TakesSize(m, e)
    BY <1>1, <1>2, <1>3, <1>6 DEF SizeInv
  <2>. QED  BY <1>1, <2>1, SizeIsOne
<1>13. BlobOf(m, n, e)'
  BY <1>1, <1>5, <1>7, <1>8, <1>9, <1>10, <1>11, <1>12 DEF BlobOf
<1>14. HalfRestored'
  BY <1>1 DEF NewContext, HalfRestored, Loaded
<1>15. 0 \in 0..n /\ Mirrors(Run(m)[0])'
  BY <1>1, <1>5, RunIsIteration
  DEF Mirrors, NewConfig, NewContext, MirrorStack, MirrorWritten, MirrorStrings
<1>16. Restores(m, n, e)'
  BY <1>1, <1>13, <1>14, <1>15 DEF Restores
<1>. QED  BY <1>16 DEF RestoreInv

(* The innermost calls of a store and of its mirror.                       *)
LEMMA MirrorTop ==
  ASSUME RoomKept, stack # <<>>, NEW c \in Configs, Mirrors(c)
  PROVE  /\ c.stack # <<>> /\ Len(c.stack) = Len(stack) /\ Len(stack) \in Nat \ {0}
         /\ c.stack \in Seq(Calls) /\ TopOf(c) \in Calls
         /\ Top.from = Top.to /\ Top.to = TopOf(c).to /\ Top.members = TopOf(c).members
         /\ Top.at = TopOf(c).at /\ Top.offset = TopOf(c).offset
         /\ MemberOf(c) = Member /\ TargetOf(c) = Target
<1>1. /\ Len(c.stack) = Len(stack)
      /\ \A k \in 1..Len(stack) : /\ stack[k].from = c.stack[k].to /\ stack[k].to = c.stack[k].to
                                  /\ stack[k].members = c.stack[k].members
                                  /\ stack[k].at = c.stack[k].at /\ stack[k].offset = c.stack[k].offset
  BY DEF Mirrors, MirrorStack
<1>2. Len(stack) \in Nat \ {0} /\ Top = stack[Len(stack)] /\ c.stack \in Seq(Calls)
  BY TopIsCall DEF RoomKept, Configs
<1>3. c.stack # <<>> /\ TopOf(c) = c.stack[Len(stack)] /\ TopOf(c) \in Calls
  BY <1>1, <1>2 DEF TopOf
<1>. QED  BY <1>1, <1>2, <1>3 DEF MemberOf, Member, TargetOf, Target

(* The mirror comes to a word while the store that is mirrored did.        *)
LEMMA MirrorWord ==
  ASSUME RoomKept, Running, inPlace, HalfRestored,
         NEW m, NEW n, NEW e, BlobOf(m, n, e), NEW k \in 0..n, NEW c, c = Run(m)[k], Mirrors(c)
  PROVE  /\ c \in Configs /\ k + 1 \in 0..n /\ MemberStep(m, c) = Run(m)[k + 1]
         /\ BlobHas(m, c, e) /\ BlobHasWord(m, c, e)
         /\ Source = Target /\ Value = Loaded(blob[Target])
         /\ blob[Target] = MadeWord(m, c) /\ Target < size
         /\ e \in Nat /\ e <= size
<1>1. TypeOK /\ stack # <<>> /\ Top.at \in 1..Len(Top.members) /\ Top.at <= Len(Top.members)
  BY MemberIsRead DEF RoomKept, Running
<1>2. c \in Configs /\ n \in Nat /\ k \in Nat
  BY RunIsIteration DEF BlobOf
<1>3. /\ c.stack # <<>> /\ Top.from = Top.to /\ TopOf(c).at = Top.at /\ TopOf(c).members = Top.members
      /\ TargetOf(c) = Target /\ Len(c.stack) = Len(stack)
  BY <1>1, <1>2, MirrorTop
<1>4. AtMember(c)
  BY <1>1, <1>3 DEF AtMember
<1>5. ~Ended(c)
  <2>1. Len(c.stack) = 1 => c.stack[1] = TopOf(c)
    BY DEF TopOf
  <2>2. Top.at \in Nat /\ Len(Top.members) \in Nat
    BY <1>1, TopIsCall
  <2>. QED  BY <1>1, <1>3, <2>1, <2>2 DEF Ended
<1>6. k # n
  BY <1>5 DEF BlobOf
<1>7. k \in 0..(n - 1) /\ k + 1 \in 0..n
  BY <1>2, <1>6
<1>8. StepOf(m, c) = Run(m)[k + 1] /\ BlobHas(m, c, e)
  BY <1>7 DEF BlobOf
<1>9. StepOf(m, c) = MemberStep(m, c)
  BY <1>1, <1>3 DEF StepOf
<1>10. BlobHasWord(m, c, e)
  BY <1>4, <1>8 DEF BlobHas
<1>11. Target \in HeaderCells..(e - 1) /\ blob[Target] = MadeWord(m, c)
  BY <1>3, <1>10 DEF BlobHasWord, InBlob
<1>12. Source = Target
  BY <1>3 DEF Source, Target
<1>13. Value = Loaded(blob[Target])
  <2>1. Target \in Positions \ filled
    BY TargetIsPending
  <2>. QED  BY <1>12, <2>1 DEF HalfRestored, Value, Read
<1>14. Target < size /\ e \in Nat /\ e <= size
  <2>1. e \in (HeaderCells + 1)..size /\ size \in Nat /\ HeaderCells \in Nat
    BY <1>1, Bounds DEF BlobOf, TypeOK
  <2>. QED  BY <1>11, <2>1
<1>. QED  BY <1>2, <1>7, <1>8, <1>9, <1>10, <1>11, <1>12, <1>13, <1>14

(* A word that is written is that of the blob.                             *)
LEMMA HalfRestoredMore ==
  ASSUME RoomKept, HalfRestored, NEW p \in Positions \ filled, p < size, Write(p, blob[p]),
         blob' = blob,
         IF blob[p].tag = "off" THEN ptrs' = Append(ptrs, p) ELSE ptrs' = ptrs
  PROVE  HalfRestored'
<1>1. buf \in [Positions -> Cells] /\ ptrs \in Seq(Positions) /\ filled \subseteq Positions
  BY DEF RoomKept, TypeOK
<1>2. filled' = filled \union {p} /\ buf' = [buf EXCEPT ![p] = blob[p]]
  BY DEF Write
<1>3. \A q \in Positions : buf'[q] = IF q \in filled' THEN blob[q] ELSE Loaded(blob[q])
  BY <1>1, <1>2 DEF HalfRestored
<1>4. \A q \in filled' : blob[q].tag = "off" <=> \E i \in DOMAIN ptrs' : ptrs'[i] = q
  <2>1. CASE blob[p].tag = "off"
    <3>1. /\ DOMAIN ptrs' = DOMAIN ptrs \union {Len(ptrs) + 1} /\ ptrs'[Len(ptrs) + 1] = p
          /\ \A i \in DOMAIN ptrs : ptrs'[i] = ptrs[i]
      BY <1>1, <2>1
    <3>. QED  BY <1>2, <2>1, <3>1 DEF HalfRestored
  <2>2. CASE blob[p].tag # "off"
    <3>1. \A i \in DOMAIN ptrs : ptrs[i] \in filled
      BY DEF RoomKept, PlacesInv
    <3>. QED  BY <1>2, <2>2, <3>1 DEF HalfRestored
  <2>. QED  BY <2>1, <2>2
<1>. QED  BY <1>3, <1>4 DEF HalfRestored

(* The calls of a config after a word was stored, an offset given, a call  *)
(* made and a call returned.                                               *)
LEMMA StoredShape ==
  ASSUME NEW c \in Configs, c.stack # <<>>
  PROVE  /\ Len(Stored(c)) = Len(c.stack)
         /\ \A l \in 1..Len(c.stack) : l # Len(c.stack) => Stored(c)[l] = c.stack[l]
         /\ LET top == Stored(c)[Len(c.stack)]
            IN /\ top.to = TopOf(c).to /\ top.members = TopOf(c).members
               /\ top.at = TopOf(c).at + 1 /\ top.offset = 0
<1>1. c.stack \in Seq(Calls) /\ Len(c.stack) \in 1..Len(c.stack) /\ TopOf(c) = c.stack[Len(c.stack)]
  BY DEF Configs, TopOf
<1>2. TopOf(c) \in Calls
  BY <1>1
<1> DEFINE same == Call(TopOf(c).from, TopOf(c).to, TopOf(c).members)
           top == [same EXCEPT !.at = TopOf(c).at + 1]
<1>3. same \in Calls /\ same.offset = 0 /\ same.to = TopOf(c).to /\ same.members = TopOf(c).members
  BY <1>2, Bounds DEF Calls, Call
<1>4. TopOf(c).at + 1 \in Nat \ {0}
  BY <1>2 DEF Calls
<1>5. Stored(c) = [c.stack EXCEPT ![Len(c.stack)] = top]
  BY Zenon DEF Stored
<1> HIDE DEF same
<1>6. /\ top \in Calls /\ top.offset = 0 /\ top.at = TopOf(c).at + 1
      /\ top.to = TopOf(c).to /\ top.members = TopOf(c).members
  BY <1>3, <1>4 DEF Calls
<1> HIDE DEF top
<1>. QED  BY <1>1, <1>5, <1>6

LEMMA GivenShape ==
  ASSUME NEW c \in Configs, c.stack # <<>>, NEW o \in Positions
  PROVE  /\ Len(Given(c, o)) = Len(c.stack)
         /\ \A l \in 1..Len(c.stack) : l # Len(c.stack) => Given(c, o)[l] = c.stack[l]
         /\ LET top == Given(c, o)[Len(c.stack)]
            IN /\ top.to = TopOf(c).to /\ top.members = TopOf(c).members
               /\ top.at = TopOf(c).at /\ top.offset = o
<1>1. c.stack \in Seq(Calls) /\ Len(c.stack) \in 1..Len(c.stack) /\ TopOf(c) = c.stack[Len(c.stack)]
  BY DEF Configs, TopOf
<1>2. /\ Len(Given(c, o)) = Len(c.stack)
      /\ \A l \in 1..Len(c.stack) : l # Len(c.stack) => Given(c, o)[l] = c.stack[l]
      /\ Given(c, o)[Len(c.stack)] = [TopOf(c) EXCEPT !.offset = o]
  BY <1>1, OffsetGiven DEF Given
<1>3. TopOf(c) \in Calls
  BY <1>1
<1>. QED  BY <1>2, <1>3 DEF Calls

(* The mirror of each change of the calls.                                 *)
LEMMA MirrorStored ==
  ASSUME RoomKept, Running, NEW c \in Configs, Mirrors(c), stack' = NextMember
  PROVE  MirrorStack(stack', Stored(c))
<1>1. TypeOK /\ stack # <<>>
  BY MemberIsRead DEF RoomKept
<1>2. PICK n \in Nat \ {0} : n = Len(stack)
  BY <1>1, TopIsCall
<1>3. /\ c.stack # <<>> /\ Len(c.stack) = n /\ Top.from = Top.to /\ Top.to = TopOf(c).to
      /\ Top.members = TopOf(c).members /\ Top.at = TopOf(c).at
  BY <1>1, <1>2, MirrorTop
<1>4. DOMAIN stack = 1..n
  BY <1>1, <1>2, TopIsCall
<1>5. /\ Len(stack') = n /\ \A k \in 1..n : k # n => stack'[k] = stack[k]
      /\ stack'[n].from = Top.from /\ stack'[n].to = Top.to /\ stack'[n].members = Top.members
      /\ stack'[n].at = Top.at + 1 /\ stack'[n].offset = 0
  BY <1>1, <1>2, <1>4, NextMemberShape
<1>6. /\ Len(Stored(c)) = n /\ \A k \in 1..n : k # n => Stored(c)[k] = c.stack[k]
      /\ Stored(c)[n].to = TopOf(c).to /\ Stored(c)[n].members = TopOf(c).members
      /\ Stored(c)[n].at = TopOf(c).at + 1 /\ Stored(c)[n].offset = 0
  BY <1>3, StoredShape
<1>. QED  BY <1>3, <1>5, <1>6 DEF Mirrors, MirrorStack

LEMMA MirrorGiven ==
  ASSUME RoomKept, Running, NEW c \in Configs, Mirrors(c), NEW o \in Positions,
         stack' = WithOffset(o)
  PROVE  MirrorStack(stack', Given(c, o))
<1>1. TypeOK /\ stack # <<>>
  BY MemberIsRead DEF RoomKept
<1>2. PICK n \in Nat \ {0} : n = Len(stack)
  BY <1>1, TopIsCall
<1>3. /\ c.stack # <<>> /\ Len(c.stack) = n /\ Top.from = Top.to /\ Top.to = TopOf(c).to
      /\ Top.members = TopOf(c).members /\ Top.at = TopOf(c).at
  BY <1>1, <1>2, MirrorTop
<1>4. DOMAIN stack = 1..n /\ Top \in Calls
  BY <1>1, <1>2, TopIsCall
<1>5. /\ Len(stack') = n /\ \A k \in 1..n : k # n => stack'[k] = stack[k]
      /\ stack'[n] = [Top EXCEPT !.offset = o]
  BY <1>1, <1>2, <1>4, WithOffsetShape
<1>6. /\ stack'[n].from = Top.from /\ stack'[n].to = Top.to /\ stack'[n].members = Top.members
      /\ stack'[n].at = Top.at /\ stack'[n].offset = o
  BY <1>4, <1>5 DEF Calls
<1>7. /\ Len(Given(c, o)) = n /\ \A k \in 1..n : k # n => Given(c, o)[k] = c.stack[k]
      /\ Given(c, o)[n].to = TopOf(c).to /\ Given(c, o)[n].members = TopOf(c).members
      /\ Given(c, o)[n].at = TopOf(c).at /\ Given(c, o)[n].offset = o
  BY <1>3, GivenShape
<1>8. \A k \in 1..n : /\ stack[k].from = c.stack[k].to /\ stack[k].to = c.stack[k].to
                      /\ stack[k].members = c.stack[k].members
                      /\ stack[k].at = c.stack[k].at /\ stack[k].offset = c.stack[k].offset
  BY <1>3 DEF Mirrors, MirrorStack
<1> HIDE DEF Given
<1>9. \A k \in 1..n : /\ stack'[k].from = Given(c, o)[k].to /\ stack'[k].to = Given(c, o)[k].to
                      /\ stack'[k].members = Given(c, o)[k].members
                      /\ stack'[k].at = Given(c, o)[k].at /\ stack'[k].offset = Given(c, o)[k].offset
  <2>1. TAKE k \in 1..n
  <2>2. CASE k = n
    BY <1>3, <1>6, <1>7, <2>2
  <2>3. CASE k # n
    BY <1>5, <1>7, <1>8, <2>3
  <2>. QED  BY <2>2, <2>3
<1>. QED  BY <1>5, <1>7, <1>9 DEF MirrorStack

LEMMA MirrorCalled ==
  ASSUME RoomKept, stack # <<>>, NEW c \in Configs, Mirrors(c), NEW a,
         NEW members \in Seq(MemberDescs), end \in Positions,
         stack' = Append(stack, Call(end, end, members))
  PROVE  MirrorStack(stack', Called(c, a, members))
<1>1. PICK n \in Nat \ {0} : n = Len(stack)
  BY TopIsCall DEF RoomKept
<1>2. Len(c.stack) = n /\ c.stack \in Seq(Calls) /\ c.end = end /\ end \in Nat
  BY <1>1, MirrorTop, Bounds DEF Mirrors
<1>3. PICK f : f = Call(end, end, members)
  OBVIOUS
<1>4. PICK g : g = Call(a, end, members)
  OBVIOUS
<1>5. f.from = g.to /\ f.to = g.to /\ f.members = g.members /\ f.at = g.at /\ f.offset = g.offset
  BY <1>3, <1>4 DEF Call
<1>6. PICK T : T = Calls \union {f, g}
  OBVIOUS
<1>7. /\ stack' = Append(stack, f) /\ Called(c, a, members) = Append(c.stack, g)
      /\ stack \in Seq(T) /\ c.stack \in Seq(T) /\ f \in T /\ g \in T
  <2>1. stack \in Seq(Calls) /\ Calls \subseteq T /\ f \in T /\ g \in T
    BY <1>6 DEF RoomKept, TypeOK
  <2>2. stack \in Seq(T) /\ c.stack \in Seq(T)
    BY <1>2, <2>1
  <2>. QED  BY <1>2, <1>3, <1>4, <2>1, <2>2 DEF Called
<1>8. /\ Len(stack') = n + 1 /\ stack'[n + 1] = f /\ \A k \in 1..n : stack'[k] = stack[k]
      /\ Len(Called(c, a, members)) = n + 1 /\ Called(c, a, members)[n + 1] = g
      /\ \A k \in 1..n : Called(c, a, members)[k] = c.stack[k]
  BY <1>1, <1>2, <1>7
<1>9. \A k \in 1..(n + 1) : k = n + 1 \/ k \in 1..n
  OBVIOUS
<1>. QED  BY <1>1, <1>2, <1>5, <1>8, <1>9 DEF Mirrors, MirrorStack

LEMMA MirrorReturned ==
  ASSUME RoomKept, Return, NEW c \in Configs, Mirrors(c)
  PROVE  MirrorStack(stack', Returned(c)) /\ Len(c.stack) > 1
<1>1. TypeOK /\ stack # <<>> /\ Len(stack) > 1
  BY DEF RoomKept, Return, TypeOK
<1>2. PICK n : n = Len(stack) - 1
  OBVIOUS
<1>3. /\ n \in DOMAIN stack /\ Len(stack) \in DOMAIN stack /\ Len(stack') = n
      /\ \A k \in 1..(n - 1) : stack'[k] = stack[k]
      /\ stack'[n] = [stack[n] EXCEPT !.offset = Top.to] /\ DOMAIN stack = 1..Len(stack)
  BY <1>1, <1>2, ReturnShape, TopIsCall
<1>4. stack[n] \in Calls /\ Top.to \in Positions
  BY <1>1, <1>3, CallFacts, TopIsCall
<1>5. /\ stack'[n].from = stack[n].from /\ stack'[n].to = stack[n].to
      /\ stack'[n].members = stack[n].members
      /\ stack'[n].at = stack[n].at /\ stack'[n].offset = Top.to
  BY <1>3, <1>4 DEF Calls
<1>16. Len(c.stack) = Len(stack) /\ c.stack \in Seq(Calls) /\ TopOf(c).to = Top.to
  BY <1>1, MirrorTop
<1>17. Len(stack) \in Nat
  BY <1>1, TopIsCall
<1>6. /\ Len(c.stack) = n + 1 /\ n \in Nat \ {0} /\ c.stack \in Seq(Calls) /\ TopOf(c).to = Top.to
      /\ Len(c.stack) > 1
  BY <1>1, <1>2, <1>16, <1>17
<1>7. /\ Front(c.stack) \in Seq(Calls) /\ Len(Front(c.stack)) = n
      /\ \A k \in 1..n : Front(c.stack)[k] = c.stack[k]
  BY <1>6 DEF Front
<1>8. Returned(c) = [Front(c.stack) EXCEPT ![n].offset = Top.to]
  BY <1>6 DEF Returned
<1>9. /\ Len(Returned(c)) = n /\ \A k \in 1..n : k # n => Returned(c)[k] = Front(c.stack)[k]
      /\ Returned(c)[n] = [Front(c.stack)[n] EXCEPT !.offset = Top.to]
  BY <1>4, <1>6, <1>7, <1>8, OffsetGiven
<1>10. c.stack[n] \in Calls
  BY <1>6
<1>14. Front(c.stack)[n] = c.stack[n]
  BY <1>6, <1>7
<1>15. Returned(c)[n] = [c.stack[n] EXCEPT !.offset = Top.to]
  BY <1>9, <1>14, Zenon
<1>11. /\ Returned(c)[n].to = c.stack[n].to /\ Returned(c)[n].members = c.stack[n].members
       /\ Returned(c)[n].at = c.stack[n].at /\ Returned(c)[n].offset = Top.to
  BY <1>10, <1>15 DEF Calls
<1>12. \A k \in 1..n : k = n \/ k \in 1..(n - 1)
  BY <1>6
<1>13. \A k \in 1..(n - 1) : stack'[k] = stack[k] /\ Returned(c)[k] = c.stack[k] /\ k \in 1..(n + 1)
  BY <1>3, <1>6, <1>7, <1>9
<1>18. \A k \in 1..(n + 1) :
         /\ stack[k].from = c.stack[k].to /\ stack[k].to = c.stack[k].to
         /\ stack[k].members = c.stack[k].members
         /\ stack[k].at = c.stack[k].at /\ stack[k].offset = c.stack[k].offset
  BY <1>6 DEF Mirrors, MirrorStack
<1>19. \A k \in 1..n :
         /\ stack'[k].from = Returned(c)[k].to /\ stack'[k].to = Returned(c)[k].to
         /\ stack'[k].members = Returned(c)[k].members
         /\ stack'[k].at = Returned(c)[k].at /\ stack'[k].offset = Returned(c)[k].offset
  <2>1. TAKE k \in 1..n
  <2>2. CASE k = n
    <3>1. k \in 1..(n + 1)
      BY <1>6
    <3>. QED  BY <1>5, <1>11, <1>18, <2>2, <3>1
  <2>3. CASE k # n
    BY <1>12, <1>13, <1>18, <2>3
  <2>. QED  BY <2>2, <2>3
<1>. QED  BY <1>3, <1>6, <1>9, <1>19 DEF MirrorStack

(* Only the calls have changed.                                            *)
LEMMA MirrorSame ==
  ASSUME NEW c, Mirrors(c), NEW s, MirrorStack(stack', s), UNCHANGED <<end, written, strings>>
  PROVE  Mirrors(WithStack(c, s))'
BY DEF Mirrors, WithStack

(* A store in place has a buffer, and its blob fits.                       *)
LEMMA MirrorSizes ==
  ASSUME RoomKept, inPlace, NEW m, NEW n, NEW e, BlobOf(m, n, e)
  PROVE  ~Dummy /\ size > HeaderCells /\ e \in Nat /\ e <= size
<1>1. size \in Nat /\ e \in (HeaderCells + 1)..size /\ HeaderCells \in Nat
  BY Bounds DEF RoomKept, TypeOK, BlobOf
<1>. QED  BY <1>1 DEF Dummy

(* The steps of the store over the instance: data and null are copied to   *)
(* where they are,                                                         *)
LEMMA ValueRestored ==
  ASSUME RoomKept, inPlace, HalfRestored, StoreValue,
         NEW m, NEW n, NEW e, BlobOf(m, n, e), NEW k \in 0..n, NEW c, c = Run(m)[k], Mirrors(c)
  PROVE  HalfRestored' /\ Mirrors(Run(m)[k + 1])'
<1>1. /\ Running /\ Write(Target, Value) /\ stack' = NextMember /\ stack # <<>>
      /\ UNCHANGED <<end, written, strings, ptrs, blob, size>>
      /\ Member.kind = "data" \/ (Value = Zero /\ Top.offset = 0)
  BY DEF StoreValue, contextVars, history, Running
<1>2. /\ c \in Configs /\ MemberStep(m, c) = Run(m)[k + 1] /\ BlobHasWord(m, c, e)
      /\ Value = Loaded(blob[Target]) /\ blob[Target] = MadeWord(m, c) /\ Target < size
  BY <1>1, MirrorWord
<1>3. MemberOf(c) = Member /\ TopOf(c).offset = Top.offset
  BY <1>1, <1>2, MirrorTop
<1>4. Copies(m, c)
  <2>1. CASE Member.kind = "data"
    BY <1>3, <2>1 DEF Copies
  <2>2. CASE Value = Zero /\ Top.offset = 0
    <3>1. blob[Target].tag # "off"
      BY <1>2, <2>2 DEF Loaded, Zero, Cell
    <3>. QED  BY <1>2, <3>1 DEF MadeWord, Cell
  <2>. QED  BY <1>1, <2>1, <2>2
<1>5. blob[Target] = WordOf(m, c) /\ WordOf(m, c) \in MemoryCells
  BY <1>2, <1>4 DEF MadeWord, BlobHasWord
<1>6. blob[Target].tag # "off"
  BY <1>5 DEF MemoryCells
<1>7. Value = blob[Target]
  BY <1>2, <1>6 DEF Loaded
<1>8. HalfRestored'
  BY <1>1, <1>2, <1>6, <1>7, TargetIsPending, HalfRestoredMore
<1>9. MemberStep(m, c) = WithStack(c, Stored(c))
  BY <1>4 DEF MemberStep, Copies
<1>10. MirrorStack(stack', Stored(c))
  BY <1>1, <1>2, MirrorStored
<1>. QED  BY <1>1, <1>2, <1>8, <1>9, <1>10, MirrorSame

(* an offset is the offset that the load made an address of,               *)
LEMMA OffsetRestored ==
  ASSUME RoomKept, FramesInv, inPlace, HalfRestored, StoreOffset,
         NEW m, NEW n, NEW e, BlobOf(m, n, e), NEW k \in 0..n, NEW c, c = Run(m)[k], Mirrors(c)
  PROVE  HalfRestored' /\ Mirrors(Run(m)[k + 1])'
<1>1. /\ Running /\ Write(Target, Cell("off", Top.offset)) /\ stack' = NextMember /\ stack # <<>>
      /\ UNCHANGED <<end, written, strings, blob, size>> /\ Top.offset # 0
      /\ ptrs' = IF Dummy THEN ptrs ELSE Append(ptrs, Target)
  BY DEF StoreOffset, history, Running
<1>2. /\ c \in Configs /\ MemberStep(m, c) = Run(m)[k + 1] /\ BlobHasWord(m, c, e)
      /\ blob[Target] = MadeWord(m, c) /\ Target < size
  BY <1>1, MirrorWord
<1>3. MemberOf(c) = Member /\ TopOf(c).offset = Top.offset
  BY <1>1, <1>2, MirrorTop
<1>4. ~Copies(m, c)
  <2>1. TypeOK
    BY DEF RoomKept
  <2>2. Member.kind # "data"
    BY <1>1, <2>1, TopIsCall DEF FramesInv, Awaits, MemberAt, Member
  <2>. QED  BY <1>1, <1>3, <2>2 DEF Copies
<1>5. blob[Target] = Cell("off", Top.offset)
  BY <1>1, <1>2, <1>3, <1>4 DEF MadeWord
<1>6. blob[Target].tag = "off" /\ ptrs' = Append(ptrs, Target)
  BY <1>1, <1>5, MirrorSizes DEF Cell
<1>7. HalfRestored'
  BY <1>1, <1>2, <1>5, <1>6, TargetIsPending, HalfRestoredMore
<1>8. MemberStep(m, c) = WithStack(c, Stored(c))
  BY <1>1, <1>3 DEF MemberStep
<1>9. MirrorStack(stack', Stored(c))
  BY <1>1, <1>2, MirrorStored
<1>. QED  BY <1>1, <1>2, <1>7, <1>8, <1>9, MirrorSame

(* A set of numbers that is not empty has a least one.                     *)
LEMMA LeastIsIn ==
  ASSUME NEW S \in SUBSET Nat, S # {}
  PROVE  LeastOf(S) \in S /\ \A j \in S : LeastOf(S) <= j
<1>1. \E i \in S : \A j \in S : i <= j
  BY LeastNat
<1>. QED  BY <1>1, Zenon DEF LeastOf

(* A reference of the loaded instance refers to what it referred to.       *)
LEMMA MirrorRefers ==
  ASSUME RoomKept, inPlace, HalfRestored, NEW kind \in {"str", "ptr", "array"}, Refers(kind),
         NEW m, NEW n, NEW e, BlobOf(m, n, e), NEW k \in 0..n, NEW c, c = Run(m)[k], Mirrors(c)
  PROVE  LET a == WordOf(m, c).v
         IN /\ c \in Configs /\ BlobHas(m, c, e) /\ Running /\ stack # <<>>
            /\ Value.v = GivenTo(m, c) /\ Value.v \in Positions \ {0}
            /\ MemberOf(c) = Member /\ Member.kind = kind
            /\ kind = "str" => m[a] \in MemoryCells /\ (SameIn(m, c, a) = {} => InBlob(e, end, m[a]))
            /\ Run(m)[k + 1] =
                 IF kind = "str" THEN StringOf(m, c, a)
                 ELSE IF kind = "ptr" THEN PointeeOf(c, a, Members[Member.of])
                 ELSE ArrayOf(c, a, Repeat(Members[Member.of], Member.count))
<1>1. /\ Running /\ stack # <<>> /\ Member.kind = kind /\ Top.offset = 0 /\ Value.tag = "addr"
  BY DEF Refers, Running
<1>2. /\ c \in Configs /\ MemberStep(m, c) = Run(m)[k + 1] /\ BlobHas(m, c, e) /\ BlobHasWord(m, c, e)
      /\ Value = Loaded(blob[Target]) /\ blob[Target] = MadeWord(m, c)
  BY <1>1, MirrorWord
<1>3. MemberOf(c) = Member /\ TopOf(c).offset = 0 /\ c.end = end
  BY <1>1, <1>2, MirrorTop DEF Mirrors
<1>4. ~Copies(m, c)
  <2>1. SUFFICES ASSUME Copies(m, c) PROVE FALSE
    OBVIOUS
  <2>2. WordOf(m, c) = Zero
    BY <1>1, <1>3, <2>1 DEF Copies
  <2>3. Value = Zero
    BY <1>2, <2>1, <2>2 DEF MadeWord, Loaded, Zero, Cell
  <2>. QED  BY <1>1, <2>3 DEF Zero, Cell
<1>5. blob[Target] = Cell("off", GivenTo(m, c))
  BY <1>2, <1>3, <1>4 DEF MadeWord
<1>6. Value = Cell("addr", GivenTo(m, c))
  BY <1>2, <1>5 DEF Loaded, Cell
<1>7. Value.v = GivenTo(m, c)
  BY <1>6 DEF Cell
<1>8. /\ GivenTo(m, c) \in Positions \ {0}
      /\ kind = "str" => /\ m[WordOf(m, c).v] \in MemoryCells
                         /\ SameIn(m, c, WordOf(m, c).v) = {} => InBlob(e, end, m[WordOf(m, c).v])
  BY <1>1, <1>2, <1>3, <1>4 DEF BlobHasWord
<1>9. MemberStep(m, c) =
        IF kind = "str" THEN StringOf(m, c, WordOf(m, c).v)
        ELSE IF kind = "ptr" THEN PointeeOf(c, WordOf(m, c).v, Members[Member.of])
        ELSE ArrayOf(c, WordOf(m, c).v, Repeat(Members[Member.of], Member.count))
  BY <1>1, <1>3, <1>4 DEF MemberStep, Copies
<1>. QED  BY <1>1, <1>2, <1>3, <1>7, <1>8, <1>9

(* One more is remembered of both.                                         *)
LEMMA MirrorAppended ==
  ASSUME NEW T, NEW s \in Seq(T), NEW t \in Seq(T), NEW x, NEW y
  PROVE  /\ MirrorStrings(s, t) /\ x.str = y.offset /\ x.text = y.text /\ x.offset = y.offset =>
              MirrorStrings(Append(s, x), Append(t, y))
         /\ MirrorWritten(s, t) /\ x.ptr = y.pos /\ x.pos = y.pos =>
              MirrorWritten(Append(s, x), Append(t, y))
<1>1. PICK k \in Nat : k = Len(s)
  OBVIOUS
<1>2. /\ Len(Append(s, x)) = k + 1 /\ Append(s, x)[k + 1] = x
      /\ \A i \in 1..k : Append(s, x)[i] = s[i]
  BY <1>1
<1>3. Len(t) = k => /\ Len(Append(t, y)) = k + 1 /\ Append(t, y)[k + 1] = y
                    /\ \A i \in 1..k : Append(t, y)[i] = t[i]
  BY <1>1
<1>4. \A i \in 1..(k + 1) : i = k + 1 \/ i \in 1..k
  OBVIOUS
<1>. QED  BY <1>1, <1>2, <1>3, <1>4 DEF MirrorStrings, MirrorWritten

(* What the store over the instance remembers of strings and pointees.     *)
LEMMA MirrorRemembers ==
  ASSUME RoomKept, NEW c \in Configs, Mirrors(c)
  PROVE  /\ DOMAIN strings = DOMAIN c.strings /\ DOMAIN written = DOMAIN c.written
         /\ DOMAIN strings = 1..Len(strings) /\ DOMAIN written = 1..Len(written)
         /\ \A i \in DOMAIN strings : /\ strings[i].str = c.strings[i].offset
                                      /\ strings[i].offset = c.strings[i].offset
                                      /\ strings[i].text = c.strings[i].text
         /\ \A i \in DOMAIN written : /\ written[i].ptr = c.written[i].pos
                                      /\ written[i].pos = c.written[i].pos
<1>1. PICK S : S = [ptr : Nat, pos : Positions]
  OBVIOUS
<1>2. PICK T : T = [str : Nat, text : Cells, offset : Positions]
  OBVIOUS
<1>3. /\ written \in Seq(S) /\ strings \in Seq(T) /\ c.written \in Seq(S) /\ c.strings \in Seq(T)
  BY <1>1, <1>2 DEF RoomKept, TypeOK, Configs
<1>4. /\ DOMAIN written = 1..Len(written) /\ DOMAIN strings = 1..Len(strings)
      /\ DOMAIN c.written = 1..Len(c.written) /\ DOMAIN c.strings = 1..Len(c.strings)
  BY <1>3
<1>. QED  BY <1>4 DEF Mirrors, MirrorWritten, MirrorStrings

(* a string is found, or copied to where it is,                            *)
LEMMA StringRestored ==
  ASSUME RoomKept, inPlace, HalfRestored, FindString,
         NEW m, NEW n, NEW e, BlobOf(m, n, e), NEW k \in 0..n, NEW c, c = Run(m)[k], Mirrors(c)
  PROVE  HalfRestored' /\ Mirrors(Run(m)[k + 1])'
<1>1. PICK a : a = WordOf(m, c).v
  OBVIOUS
<1>2. /\ TypeOK /\ PlacesInv /\ Refers("str") /\ UNCHANGED <<size, written, ptrs, blob>>
      /\ IF SameStrings # {} THEN KnownString ELSE AppendString
  BY DEF RoomKept, FindString, history
<1>3. /\ c \in Configs /\ BlobHas(m, c, e) /\ Running /\ stack # <<>>
      /\ Value.v = GivenTo(m, c) /\ Value.v \in Positions \ {0} /\ MemberOf(c).kind = "str"
      /\ m[a] \in MemoryCells /\ (SameIn(m, c, a) = {} => InBlob(e, end, m[a]))
      /\ Run(m)[k + 1] = StringOf(m, c, a)
  BY <1>1, <1>2, MirrorRefers
<1>4. /\ DOMAIN strings = DOMAIN c.strings
      /\ \A i \in DOMAIN strings : /\ strings[i].str = c.strings[i].offset
                                   /\ strings[i].offset = c.strings[i].offset
                                   /\ strings[i].text = c.strings[i].text
  BY <1>3, MirrorRemembers
<1>5. \A p \in Positions : Read(p) = IF p \in filled THEN blob[p] ELSE Loaded(blob[p])
  BY DEF HalfRestored, Read
<1>6. \A i \in DOMAIN strings : /\ Read(strings[i].str) = strings[i].text
                                /\ m[c.strings[i].str] = strings[i].text
                                /\ strings[i].offset \in Positions
  <2>1. TAKE i \in DOMAIN strings
  <2>2. strings[i].offset \in Positions /\ strings[i].offset \in filled
    BY <1>2, Remembered DEF PlacesInv
  <2>3. blob[c.strings[i].offset] = c.strings[i].text /\ c.strings[i].text = m[c.strings[i].str]
    BY <1>3, <1>4 DEF BlobHas, BlobHasStrings, InBlob
  <2>. QED  BY <1>4, <1>5, <2>2, <2>3
<1>7. SameIn(m, c, a) = {i \in DOMAIN strings : strings[i].text = m[a]}
  BY <1>4, <1>6 DEF SameIn
<1>8. SameIn(m, c, a) \in SUBSET Nat
  BY <1>2, <1>7, Remembered
<1>9. m[a].tag # "off"
  BY <1>3 DEF MemoryCells
<1>10. SameIn(m, c, a) = {} => end \in Positions \ filled /\ Read(end) = m[a] /\ Value.v = end
  <2> SUFFICES ASSUME SameIn(m, c, a) = {}
               PROVE  end \in Positions \ filled /\ Read(end) = m[a] /\ Value.v = end
    OBVIOUS
  <2>1. Value.v = end
    BY <1>1, <1>3 DEF GivenTo, Mirrors
  <2>2. end \in Positions /\ blob[end] = m[a]
    BY <1>3, <2>1 DEF InBlob
  <2>3. end \notin filled
    <3>1. filled \subseteq HeaderCells..(end - 1) /\ end \in Nat
      BY <2>2, Bounds DEF RoomKept, RoomInv, Reserved
    <3>. QED  BY <3>1, Bounds
  <2>. QED  BY <1>5, <1>9, <2>1, <2>2, <2>3 DEF Loaded
<1>11. Read(Value.v) = m[a]
  <2>1. CASE SameIn(m, c, a) # {}
    <3>1. PICK i \in SameIn(m, c, a) : i = LeastOf(SameIn(m, c, a))
      BY <1>8, <2>1, LeastIsIn
    <3>2. Value.v = c.strings[i].offset
      BY <1>1, <1>3, <2>1, <3>1 DEF GivenTo
    <3>. QED  BY <1>4, <1>6, <1>7, <3>1, <3>2
  <2>. QED  BY <1>10, <2>1
<1>12. SameStrings = SameIn(m, c, a)
  BY <1>6, <1>7, <1>11 DEF SameStrings, SameString
<1>13. CASE SameStrings # {}
  <2>1. PICK i \in SameStrings : /\ \A j \in SameStrings : i <= j
                                 /\ stack' = WithOffset(strings[i].offset)
    BY <1>2, <1>13 DEF KnownString
  <2>2. LeastOf(SameStrings) = i
    BY <1>8, <1>12, <2>1, LeastIs
  <2>3. PICK o : o = strings[i].offset
    OBVIOUS
  <2>4. o \in Positions /\ o = c.strings[i].offset
    BY <1>4, <1>6, <1>7, <1>12, <2>1, <2>3
  <2>5. Run(m)[k + 1] = WithStack(c, Given(c, o))
    BY <1>3, <1>12, <1>13, <2>2, <2>4 DEF StringOf
  <2>6. MirrorStack(stack', Given(c, o))
    BY <1>3, <2>1, <2>3, <2>4, MirrorGiven
  <2>7. UNCHANGED <<end, written, strings, buf, filled, ptrs, blob>>
    BY <1>2, <1>13 DEF KnownString
  <2>8. HalfRestored'
    BY <2>7 DEF HalfRestored
  <2>. QED  BY <2>5, <2>6, <2>7, <2>8, MirrorSame
<1>14. CASE SameStrings = {}
  <2>1. /\ Write(end, m[a]) /\ end' = end + 1 /\ stack' = WithOffset(end)
        /\ strings' = Append(strings, [str |-> end, text |-> m[a], offset |-> end])
    BY <1>2, <1>10, <1>11, <1>12, <1>14 DEF AppendString
  <2>2. PICK o : o = end
    OBVIOUS
  <2>3. /\ o \in Positions \ filled /\ blob[o] = m[a] /\ o < size /\ c.end = o
    <3>1. InBlob(e, o, m[a]) /\ o \in Positions \ filled /\ c.end = o
      BY <1>3, <1>10, <1>12, <1>14, <2>2 DEF Mirrors
    <3>2. e \in Nat /\ e <= size /\ size \in Nat
      BY <1>2, MirrorSizes DEF TypeOK
    <3>. QED  BY <3>1, <3>2, Bounds DEF InBlob
  <2>4. HalfRestored'
    BY <1>2, <1>9, <2>1, <2>2, <2>3, HalfRestoredMore
  <2>5. MirrorStack(stack', Given(c, o))
    BY <1>3, <2>1, <2>2, <2>3, MirrorGiven
  <2>6. PICK s : s = [str |-> o, text |-> m[a], offset |-> o]
    OBVIOUS
  <2>7. PICK t : t = [str |-> a, text |-> m[a], offset |-> o]
    OBVIOUS
  <2>8. s.str = t.offset /\ s.text = t.text /\ s.offset = t.offset
    BY <2>6, <2>7
  <2>9. /\ strings' = Append(strings, s)
        /\ Run(m)[k + 1] = [stack |-> Given(c, o), end |-> o + 1, written |-> c.written,
                            strings |-> Append(c.strings, t)]
    BY <1>3, <1>12, <1>14, <2>1, <2>2, <2>3, <2>6, <2>7 DEF StringOf
  <2>10. MirrorStrings(strings', Append(c.strings, t))
    <3>1. MirrorStrings(strings, c.strings)
      BY DEF Mirrors
    <3>2. PICK T : T = [str : Nat, text : Cells, offset : Positions]
      OBVIOUS
    <3>3. strings \in Seq(T) /\ c.strings \in Seq(T)
      BY <1>2, <1>3, <3>2 DEF TypeOK, Configs
    <3>. QED  BY <2>8, <2>9, <3>1, <3>3, MirrorAppended
  <2>11. end' = o + 1 /\ written' = written
    BY <1>2, <2>1, <2>2
  <2>12. Mirrors(Run(m)[k + 1])'
    BY <2>5, <2>9, <2>10, <2>11 DEF Mirrors
  <2>. QED  BY <2>4, <2>12
<1>. QED  BY <1>13, <1>14

(* a pointee is found where it was found,                                  *)
LEMMA FoundRestored ==
  ASSUME RoomKept, inPlace, HalfRestored, FindPointee,
         NEW m, NEW n, NEW e, BlobOf(m, n, e), NEW k \in 0..n, NEW c, c = Run(m)[k], Mirrors(c)
  PROVE  HalfRestored' /\ Mirrors(Run(m)[k + 1])'
<1>1. PICK a : a = WordOf(m, c).v
  OBVIOUS
<1>2. /\ TypeOK /\ PlacesInv /\ Refers("ptr")
      /\ UNCHANGED <<end, written, strings, buf, filled, ptrs, blob>>
  BY DEF RoomKept, FindPointee, contextVars, history
<1>3. /\ c \in Configs /\ Running /\ stack # <<>> /\ Value.v = GivenTo(m, c) /\ MemberOf(c).kind = "ptr"
      /\ Run(m)[k + 1] = PointeeOf(c, a, Members[Member.of])
  BY <1>1, <1>2, MirrorRefers
<1>4. /\ DOMAIN written = DOMAIN c.written /\ c.end = end
      /\ \A i \in DOMAIN written : /\ written[i].ptr = c.written[i].pos
                                   /\ written[i].pos = c.written[i].pos
  BY <1>3, MirrorRemembers DEF Mirrors
<1>5. PICK i \in WrittenAt : stack' = WithOffset(written[i].pos)
  BY DEF FindPointee
<1>6. PICK o : o = written[i].pos
  OBVIOUS
<1>7. o = Value.v /\ o \in Positions /\ o \in Reserved
  BY <1>2, <1>4, <1>5, <1>6, Remembered DEF WrittenAt, PlacesInv
<1>8. WrittenIn(c, a) # {}
  <2> SUFFICES ASSUME WrittenIn(c, a) = {}
               PROVE  FALSE
    OBVIOUS
  <2>1. Value.v = end
    BY <1>1, <1>3, <1>4 DEF GivenTo
  <2>2. end \in Nat /\ HeaderCells \in Nat
    BY <1>2, Bounds DEF TypeOK
  <2>. QED  BY <1>7, <2>1, <2>2 DEF Reserved
<1>9. WrittenIn(c, a) \in SUBSET Nat
  BY <1>2, <1>4, Remembered DEF WrittenIn
<1>10. PICK l \in WrittenIn(c, a) : l = LeastOf(WrittenIn(c, a))
  BY <1>8, <1>9, LeastIsIn
<1>11. c.written[l].pos = o
  BY <1>1, <1>3, <1>7, <1>8, <1>10 DEF GivenTo
<1>12. Run(m)[k + 1] = WithStack(c, Given(c, o))
  BY <1>3, <1>8, <1>10, <1>11 DEF PointeeOf
<1>13. MirrorStack(stack', Given(c, o))
  BY <1>3, <1>5, <1>6, <1>7, MirrorGiven
<1>14. HalfRestored'
  BY <1>2 DEF HalfRestored
<1>. QED  BY <1>2, <1>12, <1>13, <1>14, MirrorSame

(* What a call places is at the end of the blob, as it was.                *)
LEMMA PlaceRestored ==
  ASSUME RoomKept, inPlace, HalfRestored, NEW kind \in {"ptr", "array"}, Refers(kind),
         NEW m, NEW n, NEW e, BlobOf(m, n, e), NEW k \in 0..n, NEW c, c = Run(m)[k], Mirrors(c),
         NEW members \in Seq(MemberDescs), members # <<>>, Room(Len(members)),
         kind = "ptr" => WrittenIn(c, WordOf(m, c).v) = {},
         stack' = Append(stack, Call(Value.v, end, members)),
         UNCHANGED <<buf, filled, ptrs, blob>>
  PROVE  /\ HalfRestored' /\ end \in Positions /\ Value.v = end
         /\ MirrorStack(stack', Called(c, WordOf(m, c).v, members))
<1>1. /\ TypeOK /\ c \in Configs /\ Value.v = GivenTo(m, c) /\ MemberOf(c).kind = kind /\ stack # <<>>
  BY MirrorRefers DEF RoomKept
<1>2. Value.v = end
  BY <1>1 DEF GivenTo, Mirrors
<1>3. end \in Positions
  <2>1. Len(members) \in Nat \ {0} /\ end \in HeaderCells..(LastCell + 1)
    BY <1>1 DEF TypeOK
  <2>2. end + Len(members) <= LastCell + 1
    BY DEF Room
  <2>. QED  BY <2>1, <2>2, Bounds
<1>4. stack' = Append(stack, Call(end, end, members))
  BY <1>2
<1>5. MirrorStack(stack', Called(c, WordOf(m, c).v, members))
  BY <1>1, <1>3, <1>4, MirrorCalled
<1>6. HalfRestored'
  BY DEF HalfRestored
<1>. QED  BY <1>2, <1>3, <1>5, <1>6

(* a pointee is placed where it was placed,                                *)
LEMMA PointedRestored ==
  ASSUME RoomKept, inPlace, HalfRestored, StorePointee,
         NEW m, NEW n, NEW e, BlobOf(m, n, e), NEW k \in 0..n, NEW c, c = Run(m)[k], Mirrors(c)
  PROVE  HalfRestored' /\ Mirrors(Run(m)[k + 1])'
<1>1. PICK a : a = WordOf(m, c).v
  OBVIOUS
<1>2. PICK members : members = Members[Member.of]
  OBVIOUS
<1>3. /\ TypeOK /\ Refers("ptr") /\ WrittenAt = {} /\ Room(Len(members))
      /\ UNCHANGED <<strings, buf, filled, ptrs, blob>> /\ end' = end + Len(members)
      /\ written' = Append(written, [ptr |-> Value.v, pos |-> end])
      /\ stack' = Append(stack, Call(Value.v, end, members))
  BY <1>2 DEF RoomKept, StorePointee, history
<1>4. /\ c \in Configs /\ Running /\ stack # <<>> /\ Value.v = GivenTo(m, c)
      /\ MemberOf(c).kind = "ptr" /\ Run(m)[k + 1] = PointeeOf(c, a, members)
  BY <1>1, <1>2, <1>3, MirrorRefers
<1>5. members \in Seq(MemberDescs) /\ members # <<>>
  BY <1>2, <1>3, <1>4, MemberIsRead, MembersOfType DEF MemberDescs
<1>6. /\ DOMAIN written = DOMAIN c.written /\ c.end = end
      /\ \A i \in DOMAIN written : written[i].ptr = c.written[i].pos
  BY <1>4, MirrorRemembers DEF Mirrors
<1>7. WrittenIn(c, a) = {}
  <2> SUFFICES ASSUME WrittenIn(c, a) # {}
               PROVE  FALSE
    OBVIOUS
  <2>1. WrittenIn(c, a) \in SUBSET Nat
    BY <1>3, <1>6, Remembered DEF WrittenIn
  <2>2. PICK l \in WrittenIn(c, a) : l = LeastOf(WrittenIn(c, a))
    BY <2>1, LeastIsIn
  <2>3. Value.v = c.written[l].pos
    BY <1>1, <1>4, <2>2 DEF GivenTo
  <2>4. l \in WrittenAt
    BY <1>6, <2>2, <2>3 DEF WrittenAt, WrittenIn
  <2>. QED  BY <1>3, <2>4
<1>8. /\ HalfRestored' /\ end \in Positions /\ Value.v = end
      /\ MirrorStack(stack', Called(c, a, members))
  BY <1>1, <1>3, <1>5, <1>7, PlaceRestored
<1>9. PICK x : x = [ptr |-> end, pos |-> end]
  OBVIOUS
<1>10. PICK y : y = [ptr |-> a, pos |-> end]
  OBVIOUS
<1>11. MirrorWritten(written', Append(c.written, y))
  <2>1. PICK T : T = [ptr : Nat, pos : Positions]
    OBVIOUS
  <2>2. written \in Seq(T) /\ c.written \in Seq(T) /\ MirrorWritten(written, c.written)
    BY <1>3, <1>4, <2>1 DEF TypeOK, Configs, Mirrors
  <2>3. x.ptr = y.pos /\ x.pos = y.pos /\ written' = Append(written, x)
    BY <1>3, <1>8, <1>9, <1>10
  <2>. QED  BY <2>2, <2>3, MirrorAppended
<1>12. PICK f : f = end
  OBVIOUS
<1>13. Run(m)[k + 1] = [stack |-> Called(c, a, members), end |-> f + Len(members),
                        written |-> Append(c.written, y), strings |-> c.strings]
  BY <1>4, <1>6, <1>7, <1>10, <1>12 DEF PointeeOf
<1>14. end' = f + Len(members)
  BY <1>3, <1>12
<1>15. MirrorStrings(strings', c.strings)
  BY <1>3 DEF Mirrors
<1>. QED  BY <1>8, <1>11, <1>13, <1>14, <1>15 DEF Mirrors

(* and so is an array.                                                     *)
LEMMA ArrayRestored ==
  ASSUME RoomKept, inPlace, HalfRestored, StoreArray,
         NEW m, NEW n, NEW e, BlobOf(m, n, e), NEW k \in 0..n, NEW c, c = Run(m)[k], Mirrors(c)
  PROVE  HalfRestored' /\ Mirrors(Run(m)[k + 1])'
<1>1. PICK a : a = WordOf(m, c).v
  OBVIOUS
<1>2. PICK members : members = Repeat(Members[Member.of], Member.count)
  OBVIOUS
<1>3. /\ TypeOK /\ Refers("array") /\ Room(Len(members))
      /\ UNCHANGED <<written, strings, buf, filled, ptrs, blob>> /\ end' = end + Len(members)
      /\ stack' = Append(stack, Call(Value.v, end, members))
  BY <1>2 DEF RoomKept, StoreArray, history
<1>4. /\ c \in Configs /\ Running /\ stack # <<>> /\ MemberOf(c).kind = "array"
      /\ Run(m)[k + 1] = ArrayOf(c, a, members)
  BY <1>1, <1>2, <1>3, MirrorRefers
<1>5. members \in Seq(MemberDescs) /\ members # <<>>
  <2>1. members \in Seq(MemberDescs) /\ Len(members) # 0
    BY <1>2, <1>3, <1>4, MemberIsRead, MembersOfArray DEF MemberDescs
  <2>. QED  BY <2>1
<1>6. HalfRestored' /\ MirrorStack(stack', Called(c, a, members))
  BY <1>1, <1>3, <1>5, PlaceRestored
<1>7. PICK f : f = end
  OBVIOUS
<1>8. c.end = f /\ MirrorWritten(written, c.written) /\ MirrorStrings(strings, c.strings)
  BY <1>7 DEF Mirrors
<1>9. Run(m)[k + 1] = [stack |-> Called(c, a, members), end |-> f + Len(members),
                       written |-> c.written, strings |-> c.strings]
  BY <1>4, <1>8 DEF ArrayOf
<1>10. /\ end' = f + Len(members)
       /\ MirrorWritten(written', c.written) /\ MirrorStrings(strings', c.strings)
  BY <1>3, <1>7, <1>8
<1>. QED  BY <1>6, <1>9, <1>10 DEF Mirrors

(* A call returns when the one that is mirrored did.                       *)
LEMMA ReturnRestored ==
  ASSUME RoomKept, inPlace, HalfRestored, Return,
         NEW m, NEW n, NEW e, BlobOf(m, n, e), NEW k \in 0..n, NEW c, c = Run(m)[k], Mirrors(c)
  PROVE  HalfRestored' /\ Mirrors(Run(m)[k + 1])' /\ k + 1 \in 0..n
<1>1. /\ TypeOK /\ stack # <<>> /\ Top.at > Len(Top.members)
      /\ UNCHANGED <<end, written, strings, buf, filled, ptrs, blob>>
  BY DEF RoomKept, Return, TypeOK, contextVars, history
<1>2. c \in Configs /\ n \in Nat /\ k \in Nat
  BY RunIsIteration DEF BlobOf
<1>3. MirrorStack(stack', Returned(c)) /\ Len(c.stack) > 1
  BY <1>2, MirrorReturned
<1>4. c.stack # <<>> /\ TopOf(c).at = Top.at /\ TopOf(c).members = Top.members
  BY <1>1, <1>2, MirrorTop
<1>5. Len(c.stack) \in Nat /\ Len(c.stack) # 1
  <2>1. c.stack \in Seq(Calls)
    BY <1>2 DEF Configs
  <2>2. PICK l \in Nat : l = Len(c.stack)
    BY <2>1
  <2>3. l > 1
    BY <1>3, <2>2
  <2>4. l \in Nat /\ l # 1
    BY <2>3
  <2>. QED  BY <2>2, <2>4, Zenon
<1>6. k # n
  BY <1>5 DEF BlobOf, Ended
<1>7. k \in 0..(n - 1) /\ k + 1 \in 0..n
  BY <1>2, <1>6
<1>8. ~(TopOf(c).at <= Len(TopOf(c).members))
  <2>1. Top.at \in Nat /\ Len(Top.members) \in Nat
    BY <1>1, TopIsCall
  <2>. QED  BY <1>1, <1>4, <2>1
<1>9. Run(m)[k + 1] = WithStack(c, Returned(c))
  BY <1>4, <1>5, <1>7, <1>8 DEF BlobOf, StepOf
<1>10. HalfRestored'
  BY <1>1 DEF HalfRestored
<1>. QED  BY <1>1, <1>3, <1>7, <1>9, <1>10, MirrorSame

(* The instance gets its place behind the header again.                    *)
LEMMA RootRestored ==
  ASSUME RoomKept, inPlace, HalfRestored, StoreRoot,
         NEW m, NEW n, NEW e, BlobOf(m, n, e), NEW k \in 0..n, NEW c, c = Run(m)[k], Mirrors(c)
  PROVE  HalfRestored' /\ Mirrors(Run(m)[k + 1])' /\ k + 1 \in 0..n
<1>1. /\ stack = <<>> /\ strings = <<>>
      /\ UNCHANGED <<strings, buf, filled, ptrs, blob>> /\ end' = HeaderCells + Len(Members[Root])
      /\ stack' = <<Call(HeaderCells, HeaderCells, Members[Root])>>
      /\ written' = <<[ptr |-> HeaderCells, pos |-> HeaderCells]>>
  BY DEF StoreRoot, RoomKept, RoomInv, history
<1>2. c \in Configs /\ n \in Nat /\ k \in Nat
  BY RunIsIteration DEF BlobOf
<1>3. c.stack = <<>>
  <2>1. c.stack \in Seq(Calls) /\ Len(c.stack) = 0
    BY <1>1, <1>2 DEF Configs, Mirrors, MirrorStack
  <2>. QED  BY <2>1
<1>4. k # n
  BY <1>3 DEF BlobOf, Ended
<1>5. k \in 0..(n - 1) /\ k + 1 \in 0..n
  BY <1>2, <1>4
<1>6. Run(m)[k + 1] = RootConfig
  BY <1>3, <1>5 DEF BlobOf, StepOf
<1>7. HalfRestored'
  BY <1>1 DEF HalfRestored
<1>8. MirrorStack(stack', RootConfig.stack)
  <2>1. PICK f : f = Call(HeaderCells, HeaderCells, Members[Root])
    OBVIOUS
  <2>2. PICK g : g = Call(Instance, HeaderCells, Members[Root])
    OBVIOUS
  <2>3. f.from = g.to /\ f.to = g.to /\ f.members = g.members /\ f.at = g.at /\ f.offset = g.offset
    BY <2>1, <2>2 DEF Call
  <2>4. stack' = <<f>> /\ RootConfig.stack = <<g>>
    BY <1>1, <2>1, <2>2 DEF RootConfig
  <2>. QED  BY <2>3, <2>4 DEF MirrorStack
<1>9. MirrorWritten(written', RootConfig.written)
  <2>1. PICK f : f = [ptr |-> HeaderCells, pos |-> HeaderCells]
    OBVIOUS
  <2>2. PICK g : g = [ptr |-> Instance, pos |-> HeaderCells]
    OBVIOUS
  <2>3. f.ptr = g.pos /\ f.pos = g.pos
    BY <2>1, <2>2
  <2>4. written' = <<f>> /\ RootConfig.written = <<g>>
    BY <1>1, <2>1, <2>2 DEF RootConfig
  <2>. QED  BY <2>3, <2>4 DEF MirrorWritten
<1>10. MirrorStrings(strings', RootConfig.strings) /\ end' = RootConfig.end
  BY <1>1 DEF RootConfig, MirrorStrings
<1>. QED  BY <1>5, <1>6, <1>7, <1>8, <1>9, <1>10 DEF Mirrors

(* The store ends where the one that is mirrored did.                      *)
LEMMA DoneRestored ==
  ASSUME RoomKept, inPlace, HalfRestored, StoreDone,
         NEW m, NEW n, NEW e, BlobOf(m, n, e), NEW k \in 0..n, NEW c, c = Run(m)[k], Mirrors(c)
  PROVE  /\ HalfRestored' /\ phase' = "stored" /\ end' = e
         /\ MirrorStrings(strings', Run(m)[n].strings)
<1>1. /\ TypeOK /\ stack # <<>> /\ Len(stack) = 1 /\ Top.at > Len(Top.members)
      /\ phase' = IF ~Dummy /\ end > size THEN "too_small" ELSE "stored"
      /\ UNCHANGED <<end, strings, buf, filled, ptrs, blob>>
  BY DEF RoomKept, StoreDone, contextVars, history
<1>2. c \in Configs /\ n \in Nat /\ k \in Nat
  BY RunIsIteration DEF BlobOf
<1>3. Len(c.stack) = 1 /\ TopOf(c).at = Top.at /\ TopOf(c).members = Top.members
  BY <1>1, <1>2, MirrorTop
<1>4. Ended(c)
  BY <1>1, <1>3 DEF Ended, TopOf
<1>5. c = Run(m)[n]
  BY <1>2, <1>4, OneEnd DEF BlobOf
<1>6. end = e /\ MirrorStrings(strings, Run(m)[n].strings)
  BY <1>5 DEF Mirrors, BlobOf
<1>7. phase' = "stored"
  <2>1. e <= size /\ e \in Nat /\ size \in Nat
    BY <1>1, MirrorSizes DEF TypeOK
  <2>. QED  BY <1>1, <1>6, <2>1
<1>8. HalfRestored'
  BY <1>1 DEF HalfRestored
<1>. QED  BY <1>1, <1>6, <1>7, <1>8

(* The blob is kept as history.                                            *)
LEMMA BlobSame ==
  ASSUME UNCHANGED <<blob, size, needed>>, NEW m, NEW n, NEW e, BlobOf(m, n, e)
  PROVE  BlobOf(m, n, e)'
<1>1. \A c : BlobHas(m, c, e) => BlobHas(m, c, e)'
  BY DEF BlobHas, BlobHasStrings, BlobHasWord, InBlob
<1>. QED  BY <1>1 DEF BlobOf

(* All of the steps.                                                       *)
LEMMA ActRestored ==
  ASSUME RoomKept, FramesInv, inPlace, HalfRestored, StoreActs,
         NEW m, NEW n, NEW e, BlobOf(m, n, e), NEW k \in 0..n, NEW c, c = Run(m)[k], Mirrors(c)
  PROVE  HalfRestored' /\ Mirrors(Run(m)[k + 1])' /\ k + 1 \in 0..n
<1>1. CASE StoreRoot
  BY <1>1, RootRestored
<1>2. CASE Return
  BY <1>2, ReturnRestored
<1>3. CASE StoreValue \/ FindString \/ FindPointee \/ StorePointee \/ StoreArray \/ StoreOffset
  <2>1. Running
    BY <1>3 DEF StoreValue, FindString, FindPointee, StorePointee, StoreArray, StoreOffset, Refers
  <2>2. k + 1 \in 0..n
    BY <2>1, MirrorWord
  <2>3. HalfRestored' /\ Mirrors(Run(m)[k + 1])'
    BY <1>3, ValueRestored, StringRestored, FoundRestored, PointedRestored, ArrayRestored, OffsetRestored
  <2>. QED  BY <2>2, <2>3
<1>. QED  BY <1>1, <1>2, <1>3 DEF StoreActs

(* RestoreInv is inductive, next to the invariants of a store from memory. *)
LEMMA NextRestore ==
  ASSUME RoomKept, RoomKept', MemoryWords, MemorySize, MemoryCourse, FramesInv, RestoreInv, [Next]_vars
  PROVE  RestoreInv'
<1>1. CASE ~inPlace
  <2> SUFFICES ASSUME inPlace'
               PROVE  RestoreInv'
    BY DEF RestoreInv
  <2>1. StoreInPlace
    BY <1>1 DEF Next, StoreStep, StoreRoot, StoreValue, FindString, FindPointee, StorePointee, StoreArray,
                StoreOffset, Return, RefuseBuffer, StoreDone, StoreWithNeededSize, vars
  <2>. QED  BY <1>1, <2>1, BlobIsLoaded DEF MemoryWords, MemorySize, MemoryCourse
<1>2. CASE inPlace
  <2>1. PICK m, n, e : Restores(m, n, e)
    BY <1>2 DEF RestoreInv
  <2>2. /\ BlobOf(m, n, e) /\ HalfRestored /\ phase \in {"store", "stored"}
        /\ phase = "store" => \E k \in 0..n : Mirrors(Run(m)[k])
        /\ phase = "stored" => end = e /\ MirrorStrings(strings, Run(m)[n].strings)
    BY <2>1 DEF Restores
  <2>3. ~RefuseBuffer /\ ~StoreWithNeededSize /\ ~StoreInPlace
    <3>1. ~Dummy /\ size > HeaderCells /\ size \in Nat /\ HeaderCells \in Nat
      BY <1>2, <2>2, MirrorSizes, Bounds DEF RoomKept, TypeOK
    <3>2. ~(size <= HeaderSize)
      BY <3>1, StoreAssumption
    <3>. QED  BY <1>2, <3>1, <3>2 DEF RefuseBuffer, StoreWithNeededSize, StoreInPlace
  <2>4. CASE UNCHANGED vars
    <3>1. UNCHANGED <<blob, size, needed, buf, filled, ptrs, phase, stack, end, written, strings>>
      BY <2>4 DEF vars, contextVars, history
    <3>2. BlobOf(m, n, e)' /\ HalfRestored'
      BY <2>2, <3>1, BlobSame DEF HalfRestored
    <3>3. \A c : Mirrors(c) => Mirrors(c)'
      BY <3>1 DEF Mirrors
    <3>4. phase' = "store" => \E k \in 0..n : Mirrors(Run(m)[k])'
      BY <2>2, <3>1, <3>3
    <3>5. phase' = "stored" => end' = e /\ MirrorStrings(strings', Run(m)[n].strings)
      BY <2>2, <3>1
    <3>. QED  BY <2>2, <3>1, <3>2, <3>4, <3>5 DEF RestoreInv, Restores
  <2>5. CASE StoreDone
    <3>1. phase = "store" /\ UNCHANGED <<blob, size, needed>>
      BY <2>5 DEF StoreDone, history
    <3>2. BlobOf(m, n, e)'
      BY <2>2, <3>1, BlobSame
    <3>3. PICK k \in 0..n : Mirrors(Run(m)[k])
      BY <2>2, <3>1
    <3>4. /\ HalfRestored' /\ phase' = "stored" /\ end' = e
          /\ MirrorStrings(strings', Run(m)[n].strings)
      BY <1>2, <2>2, <2>5, <3>3, DoneRestored
    <3>. QED  BY <3>2, <3>4 DEF RestoreInv, Restores
  <2>6. CASE StoreActs
    <3>1. phase = "store" /\ phase' = phase /\ UNCHANGED <<blob, size, needed>>
      BY <2>6 DEF StoreActs, StoreRoot, StoreValue, FindString, FindPointee, StorePointee, StoreArray,
                  StoreOffset, Return, Refers, Running, history
    <3>2. BlobOf(m, n, e)'
      BY <2>2, <3>1, BlobSame
    <3>3. PICK k \in 0..n : Mirrors(Run(m)[k])
      BY <2>2, <3>1
    <3>4. HalfRestored' /\ Mirrors(Run(m)[k + 1])' /\ k + 1 \in 0..n
      BY <1>2, <2>2, <2>6, <3>3, ActRestored
    <3>5. PICK l \in 0..n : l = k + 1
      BY <3>4
    <3>6. Mirrors(Run(m)[l])'
      BY <3>4, <3>5
    <3>. QED  BY <3>1, <3>2, <3>4, <3>6 DEF RestoreInv, Restores
  <2>7. StoreActs \/ StoreDone \/ UNCHANGED vars
    BY <2>3 DEF Next, StoreStep, StoreActs
  <2>. QED  BY <2>4, <2>5, <2>6, <2>7
<1>. QED  BY <1>1, <1>2

-----------------------------------------------------------------------------
(* What follows for what is stored.                                        *)

(* What holds before the first store.                                      *)
LEMMA InitFrames == Init => FramesInv
BY DEF Init, FramesInv

LEMMA InitCourse ==
  ASSUME TextBlobs = {}, Init
  PROVE  MemoryCourse /\ RestoreInv
<1>1. phase = "store" /\ Config = NewConfig /\ ~inPlace
  BY DEF Init, Config, NewConfig
<1>. QED  BY <1>1, NewCourse DEF MemoryCourse, RestoreInv

(* A blob that was stored over itself is the blob that was loaded.         *)
LEMMA StoredOver ==
  ASSUME RoomKept, RestoreInv, Written, inPlace
  PROVE  /\ buf = blob
         /\ IsInjective(ptrs) /\ ToSet(ptrs) = {p \in Positions : buf[p].tag = "off"}
         /\ \A i, j \in DOMAIN strings : buf[strings[i].offset] = buf[strings[j].offset] => i = j
         /\ needed # 0 => end = needed
<1>1. PICK m, n, e : Restores(m, n, e)
  BY DEF RestoreInv
<1>2. /\ BlobOf(m, n, e) /\ HalfRestored /\ end = e /\ MirrorStrings(strings, Run(m)[n].strings)
      /\ TypeOK /\ RoomInv /\ PlacesInv
  BY <1>1 DEF Restores, Written, RoomKept
<1>3. filled = HeaderCells..(e - 1)
  BY <1>2 DEF RoomInv, Written, Reserved
<1>4. buf \in [Positions -> Cells] /\ blob \in [Positions -> Cells]
  BY <1>2 DEF TypeOK, BlobOf
<1>5. \A p \in Positions : blob[p].tag = "off" => p \in filled
  BY <1>2, <1>3 DEF BlobOf
<1>6. \A p \in Positions : buf[p] = blob[p]
  BY <1>2, <1>5 DEF HalfRestored, Loaded
<1>7. buf = blob
  BY <1>4, <1>6
<1>8. ptrs \in Seq(Positions) /\ \A i \in DOMAIN ptrs : ptrs[i] \in filled
  BY <1>2 DEF TypeOK, PlacesInv
<1>9. IsInjective(ptrs)
  BY <1>2 DEF PlacesInv, IsInjective
<1>10. ToSet(ptrs) = {ptrs[i] : i \in DOMAIN ptrs}
  BY DEF ToSet
<1>11. ToSet(ptrs) = {p \in Positions : buf[p].tag = "off"}
  <2>1. ASSUME NEW p \in ToSet(ptrs)
        PROVE  p \in Positions /\ buf[p].tag = "off"
    BY <1>2, <1>7, <1>8, <1>10 DEF HalfRestored, TypeOK
  <2>2. ASSUME NEW p \in Positions, buf[p].tag = "off"
        PROVE  p \in ToSet(ptrs)
    BY <1>2, <1>5, <1>7, <1>10, <2>2 DEF HalfRestored
  <2>. QED  BY <2>1, <2>2
<1>12. \A i, j \in DOMAIN strings : buf[strings[i].offset] = buf[strings[j].offset] => i = j
  <2>1. PICK t : t = Run(m)[n].strings
    OBVIOUS
  <2>2. /\ DOMAIN strings = 1..Len(t) /\ DOMAIN t = 1..Len(t)
        /\ \A i \in 1..Len(t) : strings[i].offset = t[i].offset
    <3>1. Run(m)[n] \in Configs
      BY <1>2, RunIsIteration DEF BlobOf
    <3>2. PICK T : T = [str : Nat, text : Cells, offset : Positions]
      OBVIOUS
    <3>3. strings \in Seq(T) /\ t \in Seq(T)
      BY <1>2, <2>1, <3>1, <3>2 DEF TypeOK, Configs
    <3>. QED  BY <1>2, <2>1, <3>3 DEF MirrorStrings
  <2>3. \A i, j \in DOMAIN t : blob[t[i].offset] = blob[t[j].offset] => i = j
    BY <1>2, <2>1 DEF BlobOf
  <2>. QED  BY <1>7, <2>2, <2>3
<1>13. needed # 0 => end = needed
  BY <1>2 DEF BlobOf
<1>. QED  BY <1>7, <1>9, <1>11, <1>12, <1>13

(* What all of the theorems below rest on.                                 *)
CourseKept == MemoryWords /\ MemorySize /\ MemoryCourse /\ FramesInv /\ RestoreInv

(* They hold of every reachable state.                                     *)
LEMMA CoursesAreKept ==
  ASSUME TextBlobs = {}
  PROVE  Spec => []CourseKept
<1>1. Init => CourseKept
  BY InitWords, InitSize, InitFrames, InitCourse DEF CourseKept
<1>2. RoomKept /\ RoomKept' /\ CourseKept /\ [Next]_vars => CourseKept'
  <2> SUFFICES ASSUME RoomKept, RoomKept', CourseKept, [Next]_vars
               PROVE  CourseKept'
    OBVIOUS
  <2>1. TypeOK
    BY DEF RoomKept
  <2>2. MemoryWords' /\ MemorySize'
    BY NextWords, NextSize DEF CourseKept
  <2>3. FramesInv'
    BY <2>1, NextFrames DEF CourseKept
  <2>4. MemoryCourse'
    BY NextCourse DEF CourseKept
  <2>5. RestoreInv'
    BY NextRestore DEF CourseKept
  <2>. QED  BY <2>2, <2>3, <2>4, <2>5 DEF CourseKept
<1>. QED  BY <1>1, <1>2, RoomIsKept, PTL DEF Spec

(* dl_txt_unpack leaves the blob of dl_instance_store as it was: storing   *)
(* the loaded instance over itself gives the blob again, cell for cell,    *)
(* for all types, memories and sizes.                                      *)
THEOREM BlobsRestored ==
  ASSUME TextBlobs = {}
  PROVE  Spec => []BlobRestored
<1>1. RoomKept /\ CourseKept => BlobRestored
  BY StoredOver DEF CourseKept, BlobRestored
<1>. QED  BY <1>1, RoomIsKept, CoursesAreKept, PTL

(* Equal strings share a place of the blob, and the offsets of the blob    *)
(* are where ptrs says, each once, of a store from memory and of the store *)
(* over it.                                                                *)
THEOREM AllStringsShared ==
  ASSUME TextBlobs = {}
  PROVE  Spec => []SharedStrings
<1>1. RoomKept /\ CourseKept /\ (~inPlace => SharedStrings) => SharedStrings
  BY StoredOver DEF CourseKept, SharedStrings
<1>. QED  BY <1>1, RoomIsKept, CoursesAreKept, StringsShared, PTL

(* What dl_instance_calc_size returns is the size of the blob that         *)
(* dl_instance_store makes, and that dl_txt_unpack stores over it.         *)
THEOREM NeededSizesFit == Spec => []NeededSizeFits
<1>1. TextBlobs = {} => (Spec => []NeededSizeFits)
  <2> SUFFICES ASSUME TextBlobs = {}
               PROVE  Spec => []NeededSizeFits
    OBVIOUS
  <2>1. RoomKept /\ CourseKept /\ (~inPlace => NeededSizeFits) => NeededSizeFits
    <3> SUFFICES ASSUME RoomKept, CourseKept, inPlace
                 PROVE  NeededSizeFits
      OBVIOUS
    <3>1. phase # "too_small"
      BY DEF CourseKept, RestoreInv, Restores
    <3>2. phase = "stored" /\ filled # {} => Written
      BY MirrorSizes DEF CourseKept, RestoreInv, Restores, Written
    <3>. QED  BY <3>1, <3>2, StoredOver DEF CourseKept, NeededSizeFits
  <2>. QED  BY <2>1, RoomIsKept, CoursesAreKept, SizesFit, PTL
<1>2. TextBlobs # {} => (Spec => []NeededSizeFits)
  <2> SUFFICES ASSUME TextBlobs # {}
               PROVE  Spec => []NeededSizeFits
    OBVIOUS
  <2> DEFINE Counted == size # 0 /\ needed = 0
  <2>1. Init => Counted
    BY StoreAssumption DEF Init
  <2>2. Counted /\ [Next]_vars => Counted'
    BY DEF Next, StoreStep, StoreRoot, StoreValue, FindString, FindPointee, StorePointee, StoreArray,
           StoreOffset, Return, RefuseBuffer, StoreDone, StoreWithNeededSize, StoreInPlace, vars,
           history, Dummy
  <2>3. Counted => NeededSizeFits
    BY DEF NeededSizeFits
  <2>. QED  BY <2>1, <2>2, <2>3, PTL DEF Spec
<1>. QED  BY <1>1, <1>2

-----------------------------------------------------------------------------
(* The instance that dl_txt_unpack stores is the one it loaded.            *)

(* The blob has d at a member m: an offset where m refers to something     *)
(* that is in the blob, of the structs and arrays Q, or else no offset.    *)
BlobWord(m, d, Q) ==
  IF d.tag = "off"
  THEN /\ m.kind # "data" /\ d.v \in Positions
       /\ IF m.kind = "str" THEN blob[d.v].tag # "off"
          ELSE Place(m.kind, d.v, d.v, ReferredMembers(m)) \in Q
  ELSE m.kind = "data" \/ d = Zero
BlobPlaces(Q) ==
  /\ Place("ptr", HeaderCells, HeaderCells, Members[Root]) \in Q
  /\ \A t \in Q : /\ t.from = t.to
                  /\ \A i \in 1..Len(t.members) :
                       /\ t.to + i - 1 \in Positions
                       /\ BlobWord(t.members[i], blob[t.to + i - 1], Q)
LoadedInv ==
  inPlace => /\ \A p \in Positions : origin[p] = Loaded(blob[p])
             /\ \E Q : BlobPlaces(Q)

(* The blob of a store from memory has what its words refer to.            *)
LEMMA BlobHasPlaces ==
  ASSUME RoomKept, NEW slots, GraphInv(slots), CourseInv, ~inPlace, StoreInPlace
  PROVE  LoadedInv'
<1>1. /\ phase = "stored" /\ ~Dummy /\ blob' = buf /\ origin' = buf' /\ inPlace' = TRUE
      /\ buf' = [p \in Positions |-> IF buf[p].tag = "off" THEN Cell("addr", buf[p].v) ELSE buf[p]]
  BY DEF StoreInPlace
<1>2. Written /\ TypeOK /\ PlacedInv
  BY <1>1 DEF CourseInv, Written, GraphInv, RoomKept
<1>3. \A p \in Positions : origin'[p] = Loaded(blob'[p])
  BY <1>1 DEF Loaded
<1>4. PICK P : P = placed
  OBVIOUS
<1>5. PICK Q : Q = {Place(t.kind, t.to, t.to, t.members) : t \in P}
  OBVIOUS
<1>6. Place("ptr", HeaderCells, HeaderCells, Members[Root]) \in Q
  <2>1. Place("ptr", Instance, HeaderCells, Members[Root]) \in P
    BY <1>2, <1>4 DEF Written, PlacedInv, InstancePlace
  <2>. QED  BY <1>5, <2>1 DEF Place
<1>7. ASSUME NEW t \in P, NEW i \in 1..Len(t.members)
      PROVE  t.to + i - 1 \in Positions /\ BlobWord(t.members[i], blob[t.to + i - 1], Q)'
  <2>1. PICK m : m = t.members[i]
    OBVIOUS
  <2>2. PICK c : c = origin[t.from + i - 1]
    OBVIOUS
  <2>3. PICK d : d = buf[t.to + i - 1]
    OBVIOUS
  <2>4. t.to + i - 1 \in filled /\ StoredAs(m, c, d)
    BY <1>2, <1>4, <2>1, <2>2, <2>3, WordsWereStored
  <2>5. \A p \in filled : p < size /\ p \in Positions
    BY <1>2, WordsWereStored
  <2>6. CASE m.kind = "data" \/ c = Zero
    <3>1. d.tag # "off" /\ (m.kind = "data" \/ d = Zero)
      BY <2>4, <2>6 DEF StoredAs
    <3>2. BlobWord(m, d, Q)'
      BY <3>1 DEF BlobWord
    <3>. QED  BY <1>1, <2>1, <2>3, <2>4, <2>5, <3>2
  <2>7. CASE ~(m.kind = "data" \/ c = Zero) /\ m.kind = "str"
    <3>1. d.tag = "off" /\ d.v \in Positions /\ buf[d.v].tag # "off"
      BY <2>4, <2>5, <2>7 DEF StoredAs, HasPlace, StringKept
    <3>2. BlobWord(m, d, Q)'
      BY <1>1, <2>7, <3>1 DEF BlobWord
    <3>. QED  BY <1>1, <2>1, <2>3, <2>4, <2>5, <3>2
  <2>8. CASE ~(m.kind = "data" \/ c = Zero) /\ m.kind # "str"
    <3>1. d.tag = "off" /\ Place(m.kind, c.v, d.v, ReferredMembers(m)) \in placed
      BY <2>4, <2>8 DEF StoredAs, HasPlace
    <3>2. PICK u \in placed : u = Place(m.kind, c.v, d.v, ReferredMembers(m))
      BY <3>1
    <3>3. u.kind = m.kind /\ u.to = d.v /\ u.members = ReferredMembers(m)
      BY <3>2 DEF Place
    <3>4. u.to \in Positions
      BY <1>2, PlaceFacts
    <3>5. Place(m.kind, d.v, d.v, ReferredMembers(m)) \in Q
      BY <1>4, <1>5, <3>2, <3>3
    <3>6. BlobWord(m, d, Q)'
      BY <2>8, <3>1, <3>3, <3>4, <3>5 DEF BlobWord
    <3>. QED  BY <1>1, <2>1, <2>3, <2>4, <2>5, <3>6
  <2>. QED  BY <2>6, <2>7, <2>8
<1>8. ASSUME NEW u \in Q
      PROVE  /\ u.from = u.to
             /\ \A i \in 1..Len(u.members) :
                  /\ u.to + i - 1 \in Positions
                  /\ BlobWord(u.members[i], blob[u.to + i - 1], Q)'
  <2>1. PICK t \in P : u = Place(t.kind, t.to, t.to, t.members)
    BY <1>5
  <2>2. u.from = t.to /\ u.to = t.to /\ u.members = t.members
    BY <2>1 DEF Place
  <2>. QED  BY <1>7, <2>2
<1>9. BlobPlaces(Q)'
  BY <1>1, <1>6, <1>8 DEF BlobPlaces
<1>. QED  BY <1>3, <1>9 DEF LoadedInv

(* The instance in the buffer stays what was loaded.                       *)
LEMMA NextLoaded ==
  ASSUME RoomKept, GraphKept, MemoryCourse, LoadedInv, [Next]_vars
  PROVE  LoadedInv'
<1>1. CASE StoreInPlace
  <2>1. ~inPlace
    BY <1>1 DEF StoreInPlace
  <2>. QED  BY <1>1, <2>1, BlobHasPlaces DEF GraphKept, MemoryCourse
<1>2. CASE ~StoreInPlace
  <2>1. UNCHANGED <<inPlace, origin, blob>>
    BY <1>2 DEF Next, StoreStep, StoreRoot, StoreValue, FindString, FindPointee, StorePointee, StoreArray,
                StoreOffset, Return, RefuseBuffer, StoreDone, StoreWithNeededSize, vars, history
  <2>2. \A m, d, Q : BlobWord(m, d, Q) => BlobWord(m, d, Q)'
    BY <2>1 DEF BlobWord
  <2>3. \A Q : BlobPlaces(Q) => BlobPlaces(Q)'
    BY <2>1, <2>2 DEF BlobPlaces
  <2>. QED  BY <2>1, <2>3 DEF LoadedInv
<1>. QED  BY <1>1, <1>2

(* A pair of the walk of the loaded instance and its blob is in one place. *)
LEMMA LoadedIsKept ==
  ASSUME LoadedInv, inPlace, buf = blob
  PROVE  /\ \A t \in Pairs : \A i \in 1..Len(t.members) :
              SameValue(t.members[i], origin[t.from + i - 1], buf[t.to + i - 1])
         /\ \A t \in Pairs : t.from = t.to
<1>1. PICK Q : BlobPlaces(Q)
  BY DEF LoadedInv
<1>2. \A t \in Q : \A i \in 1..Len(t.members) :
        LET d == blob[t.to + i - 1]
        IN /\ BlobWord(t.members[i], d, Q) /\ t.from = t.to
           /\ origin[t.from + i - 1] = Loaded(d) /\ buf[t.to + i - 1] = d
  BY <1>1 DEF BlobPlaces, LoadedInv
<1>3. \A t \in Q : Referred(t) \subseteq Q
  <2>1. TAKE t \in Q
  <2>2. ASSUME NEW i \in 1..Len(t.members), t.members[i].kind \in {"ptr", "array"},
               buf[t.to + i - 1].tag = "off"
        PROVE  Place(t.members[i].kind, origin[t.from + i - 1].v, buf[t.to + i - 1].v,
                     ReferredMembers(t.members[i])) \in Q
    <3>1. PICK d : d = blob[t.to + i - 1]
      OBVIOUS
    <3>3. d.tag = "off" /\ origin[t.from + i - 1] = Loaded(d)
      BY <1>2, <2>2, <3>1
    <3>2. origin[t.from + i - 1].v = d.v
      BY <3>3 DEF Loaded, Cell
    <3>. QED  BY <1>2, <2>2, <3>1, <3>2 DEF BlobWord
  <2>. QED  BY <2>2 DEF Referred
<1>4. InstancePlace \in Q
  BY <1>1 DEF BlobPlaces, InstancePlace
<1>5. Pairs \subseteq Q
  BY <1>3, <1>4, PairsAreIn
<1>6. ASSUME NEW t \in Q, NEW i \in 1..Len(t.members)
      PROVE  SameValue(t.members[i], origin[t.from + i - 1], buf[t.to + i - 1])
  <2>1. PICK m : m = t.members[i]
    OBVIOUS
  <2>2. PICK d : d = blob[t.to + i - 1]
    OBVIOUS
  <2>3. BlobWord(m, d, Q) /\ origin[t.from + i - 1] = Loaded(d) /\ buf[t.to + i - 1] = d
    BY <1>2, <2>1, <2>2
  <2>4. SameValue(m, Loaded(d), d)
    <3>1. CASE d.tag # "off"
      BY <2>3, <3>1 DEF BlobWord, SameValue, Loaded
    <3>2. CASE d.tag = "off"
      <4>1. Loaded(d).tag = "addr" /\ Loaded(d).v = d.v /\ m.kind # "data" /\ d.v \in Positions
        BY <2>3, <3>2 DEF Loaded, Cell, BlobWord
      <4>2. Loaded(d) # Zero
        BY <4>1 DEF Zero, Cell
      <4>3. m.kind = "str" => buf[d.v] = origin[d.v]
        BY <2>3, <3>2, <4>1 DEF BlobWord, LoadedInv, Loaded
      <4>. QED  BY <3>2, <4>1, <4>2, <4>3 DEF SameValue
    <3>. QED  BY <3>1, <3>2
  <2>. QED  BY <2>1, <2>3, <2>4
<1>. QED  BY <1>1, <1>5, <1>6 DEF BlobPlaces

(* If every address is taken for one type only, what is stored is the      *)
(* instance, from the program's memory and, by dl_txt_unpack, over the     *)
(* blob it was loaded from, for all types and graphs of structs.           *)
THEOREM AllInstancesKept ==
  ASSUME OneTypePerAddress, TextBlobs = {}
  PROVE  Spec => []InstanceKept
<1>1. Init => GraphKept /\ LoadedInv
  <2>1. Init => LoadedInv
    BY DEF Init, LoadedInv
  <2>. QED  BY <2>1, InitGraph
<1>2. RoomKept /\ CourseKept /\ GraphKept /\ LoadedInv /\ [Next]_vars => GraphKept' /\ LoadedInv'
  BY NextGraph, NextLoaded DEF CourseKept
<1>3. RoomKept /\ CourseKept /\ LoadedInv /\ (~inPlace => InstanceKept) => InstanceKept
  <2> SUFFICES ASSUME RoomKept, CourseKept, LoadedInv, inPlace, Written
               PROVE  InstanceKept
    BY DEF InstanceKept
  <2>1. buf = blob
    BY StoredOver DEF CourseKept
  <2>. QED  BY <2>1, LoadedIsKept DEF InstanceKept
<1>. QED  BY <1>1, <1>2, <1>3, RoomIsKept, CoursesAreKept, InstancesKept, PTL DEF Spec

=============================================================================
