----------------------------- MODULE StoreProofs -----------------------------
(***************************************************************************)
(* Proofs about Store for all types, all memories, every size of header,   *)
(* buffer and blob.                                                        *)
(***************************************************************************)
EXTENDS Store, Integers, NatInduct, TLAPS

USE DEF Phases

-----------------------------------------------------------------------------
(* Types and members.                                                      *)

(* The positions are numbers, and so is the room of a type.                *)
LEMMA Bounds ==
  /\ HeaderCells \in Nat \ {0} /\ LastCell \in Nat /\ HeaderCells <= LastCell
  /\ Instance \in Nat \ {0} /\ Root \in DOMAIN Members /\ BufferSizes \subseteq Nat
  /\ Positions = 0..LastCell /\ 0 \in Positions /\ Positions \subseteq Nat
BY StoreAssumption DEF Positions

(* A type is a sequence of members that is not empty.                      *)
LEMMA MembersOfType ==
  ASSUME NEW type \in DOMAIN Members
  PROVE  /\ Members[type] \in Seq(MemberDescs)
         /\ Len(Members[type]) \in Nat \ {0}
BY StoreAssumption

(* An array is the members of its elements, as many times as it has them.  *)
LEMMA MembersOfArray ==
  ASSUME NEW type \in DOMAIN Members, NEW n \in Nat \ {0}
  PROVE  /\ Repeat(Members[type], n) \in Seq(MemberDescs)
         /\ Len(Repeat(Members[type], n)) \in Nat \ {0}
<1> DEFINE s == Members[type]
           len == Len(s)
<1>1. s \in Seq(MemberDescs) /\ len \in Nat \ {0}
  BY MembersOfType
<1> HIDE DEF s
<1>2. n * len \in Nat /\ n * len >= 1
  BY <1>1
<1>3. ASSUME NEW i \in 1..(n * len)
      PROVE  s[((i - 1) % len) + 1] \in MemberDescs
  <2>1. (i - 1) % len \in 0..(len - 1)
    BY <1>1, <1>2
  <2>. QED  BY <1>1, <2>1
<1>4. Repeat(s, n) = [i \in 1..(n * len) |-> s[((i - 1) % len) + 1]]
  BY DEF Repeat
<1>5. Repeat(s, n) \in [1..(n * len) -> MemberDescs]
  BY <1>3, <1>4
<1>6. Repeat(s, n) \in Seq(MemberDescs) /\ Len(Repeat(s, n)) = n * len
  BY <1>2, <1>5
<1>. QED  BY <1>2, <1>6 DEF s

(* So is what a pointer or an array refers to.                             *)
LEMMA ReferredIsMembers ==
  ASSUME NEW m \in MemberDescs
  PROVE  /\ ReferredMembers(m) \in Seq(MemberDescs)
         /\ Len(ReferredMembers(m)) \in Nat \ {0}
BY MembersOfType, MembersOfArray DEF ReferredMembers, MemberDescs

-----------------------------------------------------------------------------
(* The current call.                                                       *)

(* The innermost call, while there is one.                                 *)
LEMMA TopIsCall ==
  ASSUME TypeOK, stack # <<>>
  PROVE  /\ Len(stack) \in Nat \ {0} /\ Len(stack) \in DOMAIN stack
         /\ DOMAIN stack = 1..Len(stack)
         /\ Top = stack[Len(stack)] /\ Top \in Calls
         /\ Top.at \in 1..(Len(Top.members) + 1) /\ Len(Top.members) \in Nat
<1>1. stack \in Seq(Calls) /\ \A i \in DOMAIN stack : stack[i].at <= Len(stack[i].members) + 1
  BY DEF TypeOK
<1>2. /\ Len(stack) \in Nat \ {0} /\ Len(stack) \in DOMAIN stack
      /\ DOMAIN stack = 1..Len(stack) /\ stack[Len(stack)] \in Calls
  BY <1>1
<1>3. Top = stack[Len(stack)]
  BY DEF Top
<1>4. Top.at <= Len(Top.members) + 1
  BY <1>1, <1>2, <1>3
<1>5. Top.at \in Nat \ {0} /\ Len(Top.members) \in Nat
  BY <1>2, <1>3 DEF Calls
<1>. QED  BY <1>2, <1>3, <1>4, <1>5

(* What is read in a step is a cell.                                       *)
LEMMA ReadIsCell ==
  ASSUME TypeOK, NEW a, Readable(a)
  PROVE  /\ a \in Nat /\ Read(a) \in Cells
         /\ ~inPlace => Read(a) = origin[a] /\ a \in DOMAIN origin /\ origin[a] \in MemoryCells
BY StoreAssumption DEF TypeOK, Readable, Read, MemoryCells, Cells, Positions

(* A member that is to be stored is one, and has its word to read.         *)
LEMMA MemberIsRead ==
  ASSUME TypeOK, Running
  PROVE  /\ stack # <<>> /\ Top.at \in 1..Len(Top.members)
         /\ Member \in MemberDescs
         /\ Source \in Nat /\ Value \in Cells
         /\ ~inPlace => Value = origin[Source] /\ Source \in DOMAIN origin
                        /\ Value \in MemoryCells
<1>1. stack # <<>> /\ Top.at <= Len(Top.members) /\ Readable(Source)
  BY DEF Running
<1>2. Top.at \in 1..Len(Top.members) /\ Top.members \in Seq(MemberDescs)
  BY <1>1, TopIsCall DEF Calls
<1>. QED  BY <1>1, <1>2, ReadIsCell DEF Member, Value

(* A call gets an offset, and no other call changes.                       *)
LEMMA OffsetOfCall ==
  ASSUME NEW c \in Calls, NEW o \in Positions
  PROVE  [c EXCEPT !.offset = o] \in Calls
BY DEF Calls

(* What the call is after it was given an offset.                          *)
LEMMA OffsetGiven ==
  ASSUME NEW s \in Seq(Calls), NEW n \in 1..Len(s), NEW o \in Positions
  PROVE  LET given == [s EXCEPT ![n].offset = o]
         IN /\ given \in Seq(Calls) /\ Len(given) = Len(s)
            /\ \A k \in 1..Len(s) : k # n => given[k] = s[k]
            /\ given[n] = [s[n] EXCEPT !.offset = o]
<1> DEFINE call == [s[n] EXCEPT !.offset = o]
<1>1. s[n] \in Calls /\ call \in Calls
  BY OffsetOfCall
<1>2. [s EXCEPT ![n].offset = o] = [s EXCEPT ![n] = call]
  OBVIOUS
<1> HIDE DEF call
<1>3. /\ [s EXCEPT ![n] = call] \in Seq(Calls) /\ Len([s EXCEPT ![n] = call]) = Len(s)
      /\ \A k \in 1..Len(s) : k # n => [s EXCEPT ![n] = call][k] = s[k]
      /\ [s EXCEPT ![n] = call][n] = call
  BY <1>1
<1>. QED  BY <1>2, <1>3, Zenon DEF call

(* The two ways to change the call at the top change no other call, nor    *)
(* where it reads and writes.                                              *)
LEMMA WithOffsetShape ==
  ASSUME TypeOK, Running, NEW o \in Positions
  PROVE  /\ WithOffset(o) \in Seq(Calls) /\ Len(WithOffset(o)) = Len(stack)
         /\ \A k \in DOMAIN stack : k # Len(stack) => WithOffset(o)[k] = stack[k]
         /\ WithOffset(o)[Len(stack)] = [Top EXCEPT !.offset = o]
<1>1. /\ Len(stack) \in 1..Len(stack) /\ stack \in Seq(Calls)
      /\ DOMAIN stack = 1..Len(stack) /\ Top = stack[Len(stack)]
  BY TopIsCall, MemberIsRead DEF TypeOK
<1>. QED  BY <1>1, OffsetGiven, Zenon DEF WithOffset

(* The calls after a member was stored: only the innermost changes.        *)
LEMMA NextMemberShape ==
  ASSUME TypeOK, Running
  PROVE  /\ NextMember \in Seq(Calls) /\ Len(NextMember) = Len(stack)
         /\ \A k \in DOMAIN stack : k # Len(stack) => NextMember[k] = stack[k]
         /\ LET top == NextMember[Len(stack)]
            IN /\ top.from = Top.from /\ top.to = Top.to /\ top.members = Top.members
               /\ top.at = Top.at + 1 /\ top.offset = 0
<1>1. Top \in Calls /\ Len(stack) \in DOMAIN stack /\ stack \in Seq(Calls)
  BY TopIsCall, MemberIsRead DEF TypeOK
<1> DEFINE same == Call(Top.from, Top.to, Top.members)
           top == [same EXCEPT !.at = Top.at + 1]
<1>2. /\ same \in Calls /\ same.offset = 0
      /\ same.from = Top.from /\ same.to = Top.to /\ same.members = Top.members
  BY <1>1, Bounds DEF Calls, Call
<1>3. Top.at + 1 \in Nat \ {0}
  BY <1>1 DEF Calls
<1>4. NextMember = [stack EXCEPT ![Len(stack)] = top]
  BY Zenon DEF NextMember
<1> HIDE DEF same
<1>5. /\ top \in Calls /\ top.offset = 0 /\ top.at = Top.at + 1
      /\ top.from = Top.from /\ top.to = Top.to /\ top.members = Top.members
  BY <1>2, <1>3 DEF Calls
<1> HIDE DEF top
<1>. QED  BY <1>1, <1>4, <1>5

(* A call that returns leaves the calls below it, the last with an offset. *)
LEMMA ReturnShape ==
  ASSUME TypeOK, Return
  PROVE  LET n == Len(stack) - 1
         IN /\ n \in DOMAIN stack /\ Len(stack) \in DOMAIN stack
            /\ stack' \in Seq(Calls) /\ Len(stack') = n
            /\ \A k \in 1..(n - 1) : stack'[k] = stack[k]
            /\ stack'[n] = [stack[n] EXCEPT !.offset = Top.to]
<1> DEFINE n == Len(stack) - 1
<1>1. stack \in Seq(Calls) /\ Len(stack) > 1 /\ stack # <<>>
  BY DEF Return, TypeOK
<1>2. /\ Top \in Calls /\ n \in Nat \ {0} /\ stack[n] \in Calls /\ n \in DOMAIN stack
      /\ Len(stack) \in DOMAIN stack
  BY <1>1, TopIsCall
<1>9. Top.to \in Positions
  BY <1>2 DEF Calls
<1>3. /\ Front(stack) \in Seq(Calls) /\ Len(Front(stack)) = n
      /\ \A k \in 1..n : Front(stack)[k] = stack[k]
  BY <1>1, <1>2 DEF Front
<1>4. stack' = [Front(stack) EXCEPT ![n].offset = Top.to]
  BY DEF Return
<1> HIDE DEF n
<1>5. n \in 1..Len(Front(stack))
  BY <1>2, <1>3
<1>6. /\ stack' \in Seq(Calls) /\ Len(stack') = n
      /\ \A k \in 1..n : k # n => stack'[k] = Front(stack)[k]
      /\ stack'[n] = [Front(stack)[n] EXCEPT !.offset = Top.to]
  BY <1>2, <1>3, <1>4, <1>5, <1>9, OffsetGiven
<1>7. Front(stack)[n] = stack[n]
  BY <1>3, <1>5
<1>8. \A k \in 1..(n - 1) : stack'[k] = stack[k]
  BY <1>2, <1>3, <1>6
<1>. QED  BY <1>2, <1>6, <1>7, <1>8, Zenon DEF n

(* A new call is put on top.                                               *)
LEMMA CallShape ==
  ASSUME TypeOK, NEW from \in Nat, NEW to \in Positions, NEW members \in Seq(MemberDescs)
  PROVE  LET called == Append(stack, Call(from, to, members))
         IN /\ called \in Seq(Calls) /\ Len(called) = Len(stack) + 1
            /\ Call(from, to, members) \in Calls
            /\ \A k \in DOMAIN stack : called[k] = stack[k]
            /\ called[Len(stack) + 1] = Call(from, to, members)
            /\ DOMAIN called = 1..(Len(stack) + 1) /\ DOMAIN stack = 1..Len(stack)
            /\ Len(stack) \in Nat
<1>1. stack \in Seq(Calls)
  BY DEF TypeOK
<1>2. Call(from, to, members) \in Calls
  BY StoreAssumption DEF Call, Calls, Positions
<1>. QED  BY <1>1, <1>2

-----------------------------------------------------------------------------
(* The room of the blob.                                                   *)

(* What a call's place and members are.                                    *)
LEMMA CallFacts ==
  ASSUME TypeOK, NEW k \in DOMAIN stack
  PROVE  /\ stack[k] \in Calls /\ stack[k].to \in Positions /\ stack[k].from \in Nat
         /\ stack[k].members \in Seq(MemberDescs) /\ stack[k].offset \in Positions
         /\ stack[k].at \in 1..(Len(stack[k].members) + 1) /\ Len(stack[k].members) \in Nat
<1>1. stack[k] \in Calls /\ stack[k].at <= Len(stack[k].members) + 1
  BY DEF TypeOK
<1>. QED  BY <1>1 DEF Calls

(* The word that is written next is the first of its call's, and no other  *)
(* call is to write it.                                                    *)
LEMMA TargetIsPending ==
  ASSUME RoomKept, Running
  PROVE  LET n == Len(stack)
         IN /\ n \in DOMAIN stack /\ Target \in Pending(n)
            /\ Pending(n) \ {Target} = (Target + 1)..(Top.to + Len(Top.members) - 1)
            /\ Target \in Reserved /\ Target \notin filled /\ Target \in Positions
            /\ \A k \in DOMAIN stack : k # n => Target \notin Pending(k)
<1> DEFINE n == Len(stack)
<1>1. TypeOK /\ RoomInv
  BY DEF RoomKept
<1>2. n \in DOMAIN stack /\ Top = stack[n] /\ Top.at \in 1..Len(Top.members)
  BY <1>1, MemberIsRead, TopIsCall
<1>3. Top.to \in Nat /\ Len(Top.members) \in Nat
  BY <1>1, <1>2, CallFacts, Bounds
<1>4. /\ Target \in Pending(n)
      /\ Pending(n) \ {Target} = (Target + 1)..(Top.to + Len(Top.members) - 1)
  <2>1. Pending(n) = Target..(Top.to + Len(Top.members) - 1) /\ Target \in Nat
    BY <1>2, <1>3 DEF Pending, Target
  <2>2. Target <= Top.to + Len(Top.members) - 1
    BY <1>2, <1>3 DEF Target
  <2>. QED  BY <1>3, <2>1, <2>2
<1>5. Target \in Reserved /\ Target \notin filled
  BY <1>1, <1>2, <1>4 DEF RoomInv
<1>6. \A k \in DOMAIN stack : k # n => Target \notin Pending(k)
  BY <1>1, <1>2, <1>4 DEF RoomInv
<1>7. Reserved \subseteq Positions
  BY <1>1, Bounds DEF Reserved, TypeOK
<1>. QED  BY <1>2, <1>4, <1>5, <1>6, <1>7

(* The current member is written.                                          *)
LEMMA WordWritten ==
  ASSUME RoomKept, Running, buf' \in [Positions -> Cells],
         stack' = NextMember, filled' = filled \union {Target},
         ptrs' = ptrs \/ ptrs' = Append(ptrs, Target),
         UNCHANGED <<phase, inPlace, origin, size, end, written, strings, placed>>
  PROVE  RoomKept'
<1> DEFINE n == Len(stack)
<1>1. TypeOK /\ RoomInv /\ PlacesInv
  BY DEF RoomKept
<1>2. /\ n \in DOMAIN stack /\ DOMAIN stack = 1..n /\ stack # <<>> /\ phase = "store"
      /\ Top = stack[n] /\ Top.at \in 1..Len(Top.members)
  BY <1>1, MemberIsRead, TopIsCall DEF Running
<1>3. /\ stack' \in Seq(Calls) /\ DOMAIN stack' = DOMAIN stack /\ stack' # <<>>
      /\ Len(stack') = n
      /\ \A k \in DOMAIN stack : k # n => stack'[k] = stack[k]
      /\ stack'[n].to = stack[n].to /\ stack'[n].members = stack[n].members
      /\ stack'[n].at = stack[n].at + 1 /\ stack'[n].offset = 0
  BY <1>1, <1>2, NextMemberShape
<1>4. Pending(n)' = Pending(n) \ {Target} /\ \A k \in DOMAIN stack : k # n => Pending(k)' = Pending(k)
  <2>1. \A k \in DOMAIN stack : k # n => Pending(k)' = Pending(k)
    BY <1>3 DEF Pending
  <2>2. Top.to \in Nat /\ Len(Top.members) \in Nat
    BY <1>1, <1>2, CallFacts, Bounds
  <2>4. Top.at \in Nat
    BY <1>2, <2>2
  <2>3. Pending(n)' = (Target + 1)..(Top.to + Len(Top.members) - 1)
    BY <1>2, <1>3, <2>2, <2>4 DEF Pending, Target
  <2>. QED  BY <2>1, <2>3, TargetIsPending
<1>5. /\ Target \in Pending(n) /\ Target \in Reserved /\ Target \notin filled
      /\ Target \in Positions /\ \A k \in DOMAIN stack : k # n => Target \notin Pending(k)
  BY TargetIsPending
<1>6. Reserved' = Reserved
  BY DEF Reserved
<1>7. TypeOK'
  <2>1. ptrs \in Seq(Positions) /\ filled \subseteq Positions
    BY <1>1 DEF TypeOK
  <2>3. ptrs' \in Seq(Positions) /\ filled' \subseteq Positions
    BY <1>5, <2>1
  <2>2. \A k \in DOMAIN stack' : stack'[k].at <= Len(stack'[k].members) + 1
    BY <1>1, <1>2, <1>3, CallFacts
  <2>. QED  BY <1>1, <1>3, <2>2, <2>3 DEF TypeOK
<1>8. RoomInv'
  <2>1. filled' \subseteq Reserved'
    BY <1>1, <1>5, <1>6 DEF RoomInv
  <2>2. \A k \in DOMAIN stack' : /\ stack'[k].to \in Reserved' /\ Pending(k)' \subseteq Reserved'
                                 /\ Pending(k)' \intersect filled' = {}
    BY <1>1, <1>2, <1>3, <1>4, <1>5, <1>6 DEF RoomInv
  <2>3. \A k, l \in DOMAIN stack' : k # l => Pending(k)' \intersect Pending(l)' = {}
    BY <1>1, <1>3, <1>4 DEF RoomInv
  <2>4. \A p \in Reserved' : p \in filled' \/ \E k \in DOMAIN stack' : p \in Pending(k)'
    BY <1>1, <1>2, <1>3, <1>4, <1>6 DEF RoomInv
  <2>. QED  BY <1>2, <1>3, <2>1, <2>2, <2>3, <2>4 DEF RoomInv
<1>9. PlacesInv'
  <2>3. /\ ptrs \in Seq(Positions) /\ \A i \in DOMAIN ptrs : ptrs[i] \in filled
        /\ \A i, j \in DOMAIN ptrs : ptrs[i] = ptrs[j] => i = j
    BY <1>1 DEF PlacesInv, TypeOK
  <2>1. /\ \A i \in DOMAIN ptrs' : ptrs'[i] \in filled'
        /\ \A i, j \in DOMAIN ptrs' : ptrs'[i] = ptrs'[j] => i = j
    <3>1. CASE ptrs' = ptrs
      BY <2>3, <3>1
    <3>2. CASE ptrs' = Append(ptrs, Target)
      <4>1. /\ DOMAIN ptrs = 1..Len(ptrs) /\ DOMAIN ptrs' = 1..(Len(ptrs) + 1) /\ Len(ptrs) \in Nat
            /\ \A i \in DOMAIN ptrs : ptrs'[i] = ptrs[i]
            /\ ptrs'[Len(ptrs) + 1] = Target
        BY <1>5, <2>3, <3>2
      <4>. QED  BY <1>5, <2>3, <4>1
    <3>. QED  BY <3>1, <3>2
  <2>2. \A k \in DOMAIN stack' : stack'[k].offset # 0 => stack'[k].offset \in Reserved'
    BY <1>1, <1>3, <1>6 DEF PlacesInv
  <2>. QED  BY <1>1, <1>6, <2>1, <2>2 DEF PlacesInv
<1>. QED  BY <1>7, <1>8, <1>9 DEF RoomKept

(* An interval and the one behind it are one interval.                     *)
LEMMA IntervalGrows ==
  ASSUME NEW h \in Nat, NEW l \in Nat, NEW e \in Nat, NEW f \in Nat,
         h <= e, e <= f, f <= l + 1
  PROVE  /\ h..(f - 1) = h..(e - 1) \union e..(f - 1)
         /\ h..(e - 1) \intersect e..(f - 1) = {}
         /\ h..(f - 1) \subseteq 0..l
<1>1. h..(f - 1) = h..(e - 1) \union e..(f - 1)
  OBVIOUS
<1>2. h..(e - 1) \intersect e..(f - 1) = {}
  OBVIOUS
<1>3. h..(f - 1) \subseteq 0..l
  OBVIOUS
<1>. QED  BY <1>1, <1>2, <1>3

(* The end of the blob goes up and what was reserved stays so.             *)
LEMMA ReservedGrows ==
  ASSUME TypeOK, end' \in end..(LastCell + 1)
  PROVE  /\ Reserved' = Reserved \union end..(end' - 1)
         /\ Reserved \intersect end..(end' - 1) = {}
         /\ Reserved \subseteq Reserved' /\ Reserved' \subseteq Positions
<1>1. PICK f : f = end'
  OBVIOUS
<1>2. /\ end \in Nat /\ f \in Nat /\ end <= f /\ f <= LastCell + 1
      /\ HeaderCells <= end /\ HeaderCells \in Nat /\ LastCell \in Nat
  BY <1>1, Bounds DEF TypeOK
<1>3. Reserved' = HeaderCells..(f - 1) /\ Reserved = HeaderCells..(end - 1)
  BY <1>1 DEF Reserved
<1>4. /\ HeaderCells..(f - 1) = HeaderCells..(end - 1) \union end..(f - 1)
      /\ HeaderCells..(end - 1) \intersect end..(f - 1) = {}
      /\ HeaderCells..(f - 1) \subseteq 0..LastCell
  BY <1>2, IntervalGrows
<1>. QED  BY <1>1, <1>3, <1>4, Zenon DEF Positions

(* The current member's string or pointee has its place, which may be new. *)
LEMMA OffsetFound ==
  ASSUME RoomKept, Running, NEW o, o \in Reserved', stack' = WithOffset(o),
         end' \in end..(LastCell + 1), filled' = filled \union end..(end' - 1),
         strings' \in Seq([str : Nat, text : Cells, offset : Positions]),
         \A i \in DOMAIN strings' : strings'[i].offset \in filled',
         buf' \in [Positions -> Cells],
         UNCHANGED <<phase, inPlace, origin, size, written, ptrs, placed>>
  PROVE  RoomKept'
<1>1. TypeOK /\ RoomInv /\ PlacesInv
  BY DEF RoomKept
<1>2. PICK n : n = Len(stack) /\ n \in DOMAIN stack /\ Top = stack[n]
  BY <1>1, MemberIsRead, TopIsCall
<1>3. stack # <<>> /\ phase = "store"
  BY DEF Running
<1>4. /\ end \in Nat /\ end' \in Nat /\ end <= end' /\ end' <= LastCell + 1
      /\ HeaderCells <= end /\ HeaderCells \in Nat
      /\ end' \in HeaderCells..(LastCell + 1)
  BY <1>1, Bounds DEF TypeOK
<1>5. /\ Reserved' = Reserved \union end..(end' - 1) /\ Reserved' \subseteq Positions
      /\ Reserved \subseteq Reserved'
  BY <1>1, ReservedGrows
<1>6. o \in Positions
  BY <1>5
<1>7. /\ stack' \in Seq(Calls) /\ DOMAIN stack' = DOMAIN stack /\ stack' # <<>>
      /\ \A k \in DOMAIN stack : k # n => stack'[k] = stack[k]
      /\ stack'[n] = [stack[n] EXCEPT !.offset = o]
  BY <1>1, <1>2, <1>3, <1>6, WithOffsetShape
<1>8. \A k \in DOMAIN stack : /\ stack'[k].to = stack[k].to /\ stack'[k].at = stack[k].at
                              /\ stack'[k].members = stack[k].members
                              /\ k # n => stack'[k].offset = stack[k].offset
  BY <1>1, <1>2, <1>7, CallFacts DEF Calls
<1>9. stack'[n].offset = o
  BY <1>1, <1>2, <1>7, CallFacts DEF Calls
<1>10. \A k \in DOMAIN stack : Pending(k)' = Pending(k)
  BY <1>8 DEF Pending
<1>11. \A k \in DOMAIN stack : Pending(k) \intersect end..(end' - 1) = {}
  BY <1>1, <1>4 DEF RoomInv, Reserved
<1>12. TypeOK'
  <2>1. filled \subseteq Positions /\ filled' \subseteq Positions
    BY <1>1, <1>5 DEF TypeOK
  <2>2. \A k \in DOMAIN stack' : stack'[k].at <= Len(stack'[k].members) + 1
    BY <1>1, <1>7, <1>8, CallFacts
  <2>. QED  BY <1>1, <1>4, <1>7, <2>1, <2>2 DEF TypeOK
<1>13. RoomInv'
  <2>1. filled' \subseteq Reserved'
    BY <1>1, <1>5 DEF RoomInv
  <2>2. \A k \in DOMAIN stack' : /\ stack'[k].to \in Reserved' /\ Pending(k)' \subseteq Reserved'
                                 /\ Pending(k)' \intersect filled' = {}
    BY <1>1, <1>5, <1>7, <1>8, <1>10, <1>11 DEF RoomInv
  <2>3. \A k, l \in DOMAIN stack' : k # l => Pending(k)' \intersect Pending(l)' = {}
    BY <1>1, <1>7, <1>10 DEF RoomInv
  <2>4. \A p \in Reserved' : p \in filled' \/ \E k \in DOMAIN stack' : p \in Pending(k)'
    BY <1>1, <1>3, <1>5, <1>7, <1>10 DEF RoomInv
  <2>. QED  BY <1>3, <1>7, <2>1, <2>2, <2>3, <2>4 DEF RoomInv
<1>14. PlacesInv'
  <2>4. \A k \in DOMAIN stack : stack[k].offset # 0 => stack[k].offset \in Reserved
    BY <1>1 DEF PlacesInv
  <2>1. \A k \in DOMAIN stack' : stack'[k].offset # 0 => stack'[k].offset \in Reserved'
    BY <1>5, <1>7, <1>8, <1>9, <2>4
  <2>2. \A i \in DOMAIN written : written[i].pos \in Reserved'
    BY <1>1, <1>5 DEF PlacesInv
  <2>3. \A i \in DOMAIN ptrs : ptrs[i] \in filled'
    BY <1>1 DEF PlacesInv
  <2>. QED  BY <1>1, <2>1, <2>2, <2>3 DEF PlacesInv
<1>. QED  BY <1>12, <1>13, <1>14 DEF RoomKept

(* What the current member refers to gets a place and is to be written.    *)
LEMMA CallMade ==
  ASSUME RoomKept, Running, NEW from \in Nat, NEW members \in Seq(MemberDescs),
         members # <<>>, Room(Len(members)), end' = end + Len(members),
         stack' = Append(stack, Call(from, end, members)),
         \/ written' = written
         \/ /\ \A i \in DOMAIN written : written[i].ptr # from
            /\ written' = Append(written, [ptr |-> from, pos |-> end]),
         UNCHANGED <<phase, inPlace, origin, size, buf, strings, ptrs, filled>>
  PROVE  RoomKept'
<1>1. TypeOK /\ RoomInv /\ PlacesInv
  BY DEF RoomKept
<1>2. PICK n : n = Len(stack) + 1
  OBVIOUS
<1>3. stack # <<>> /\ phase = "store"
  BY DEF Running
<1>4. /\ end \in Nat /\ HeaderCells \in Nat /\ HeaderCells <= end /\ LastCell \in Nat
      /\ Len(members) \in Nat \ {0} /\ end + Len(members) <= LastCell + 1
  BY <1>1, Bounds DEF TypeOK, Room
<1>5. /\ end \in Positions /\ end' \in Nat /\ end' \in HeaderCells..(LastCell + 1)
      /\ end \in Reserved' /\ end \notin Reserved
      /\ end..(end' - 1) \subseteq Reserved' /\ Reserved \subseteq Reserved'
  BY <1>4, Bounds DEF Reserved
<1>6. Reserved' = Reserved \union end..(end' - 1) /\ Reserved \intersect end..(end' - 1) = {}
  BY <1>4, <1>5 DEF Reserved
<1>7. /\ stack' \in Seq(Calls) /\ DOMAIN stack' = DOMAIN stack \union {n} /\ n \notin DOMAIN stack
      /\ \A k \in DOMAIN stack : stack'[k] = stack[k]
      /\ stack'[n] = Call(from, end, members)
  <2>1. /\ stack' \in Seq(Calls) /\ Len(stack) \in Nat
        /\ DOMAIN stack' = 1..(Len(stack) + 1) /\ DOMAIN stack = 1..Len(stack)
        /\ \A k \in DOMAIN stack : stack'[k] = stack[k]
        /\ stack'[n] = Call(from, end, members)
    BY <1>1, <1>2, <1>5, CallShape
  <2>. QED  BY <1>2, <2>1
<1>8. /\ stack'[n].to = end /\ stack'[n].at = 1 /\ stack'[n].members = members
      /\ stack'[n].offset = 0
  BY <1>7 DEF Call
<1>9. /\ \A k \in DOMAIN stack : Pending(k)' = Pending(k)
      /\ Pending(n)' = end..(end' - 1)
  BY <1>4, <1>7, <1>8 DEF Pending
<1>10. TypeOK'
  <2>1. \A k \in DOMAIN stack' : stack'[k].at <= Len(stack'[k].members) + 1
    BY <1>1, <1>4, <1>7, <1>8, CallFacts
  <2>2. written \in Seq([ptr : Nat, pos : Positions])
    BY <1>1 DEF TypeOK
  <2>4. [ptr |-> from, pos |-> end] \in [ptr : Nat, pos : Positions]
    BY <1>5
  <2>5. Append(written, [ptr |-> from, pos |-> end]) \in Seq([ptr : Nat, pos : Positions])
    BY <2>2, <2>4
  <2>3. written' \in Seq([ptr : Nat, pos : Positions])
    BY <2>2, <2>5, Zenon
  <2>. QED  BY <1>1, <1>5, <1>7, <2>1, <2>3 DEF TypeOK
<1>11. RoomInv'
  <2>1. filled' \subseteq Reserved'
    BY <1>1, <1>6 DEF RoomInv
  <2> DEFINE new == end..(end' - 1)
  <2>6. /\ Reserved \subseteq Reserved' /\ new \subseteq Reserved' /\ Reserved' = Reserved \union new
        /\ Reserved \intersect new = {} /\ Pending(n)' = new /\ end \in Reserved'
    BY <1>5, <1>6, <1>9
  <2>7. /\ filled \subseteq Reserved /\ filled' = filled
        /\ \A k \in DOMAIN stack : /\ stack[k].to \in Reserved /\ Pending(k) \subseteq Reserved
                                    /\ Pending(k) \intersect filled = {}
        /\ \A k, l \in DOMAIN stack : k # l => Pending(k) \intersect Pending(l) = {}
        /\ \A p \in Reserved : p \in filled \/ \E k \in DOMAIN stack : p \in Pending(k)
    BY <1>1, <1>3 DEF RoomInv
  <2> HIDE DEF new
  <2>2. \A k \in DOMAIN stack' : /\ stack'[k].to \in Reserved' /\ Pending(k)' \subseteq Reserved'
                                 /\ Pending(k)' \intersect filled' = {}
    BY <1>7, <1>8, <1>9, <2>6, <2>7
  <2>3. \A k, l \in DOMAIN stack' : k # l => Pending(k)' \intersect Pending(l)' = {}
    BY <1>7, <1>9, <2>6, <2>7
  <2>4. \A p \in Reserved' : p \in filled' \/ \E k \in DOMAIN stack' : p \in Pending(k)'
    BY <1>7, <1>9, <2>6, <2>7
  <2>5. stack' # <<>>
    BY <1>7
  <2>. QED  BY <1>3, <2>1, <2>2, <2>3, <2>4, <2>5 DEF RoomInv
<1>12. PlacesInv'
  <2>1. \A k \in DOMAIN stack' : stack'[k].offset # 0 => stack'[k].offset \in Reserved'
    BY <1>1, <1>5, <1>7, <1>8 DEF PlacesInv
  <2>2. /\ written \in Seq([ptr : Nat, pos : Positions])
        /\ \A i \in DOMAIN written : written[i].pos \in Reserved
        /\ \A i, j \in DOMAIN written :
             written[i].pos = written[j].pos \/ written[i].ptr = written[j].ptr => i = j
    BY <1>1 DEF PlacesInv, TypeOK
  <2>3. /\ \A i \in DOMAIN written' : written'[i].pos \in Reserved'
        /\ \A i, j \in DOMAIN written' :
             written'[i].pos = written'[j].pos \/ written'[i].ptr = written'[j].ptr => i = j
    <3>1. CASE written' = written
      BY <1>5, <2>2, <3>1
    <3>2. CASE /\ \A i \in DOMAIN written : written[i].ptr # from
               /\ written' = Append(written, [ptr |-> from, pos |-> end])
      <4>1. PICK l : l = Len(written) + 1
        OBVIOUS
      <4>2. /\ DOMAIN written' = DOMAIN written \union {l} /\ l \notin DOMAIN written
            /\ \A i \in DOMAIN written : written'[i] = written[i]
            /\ written'[l] = [ptr |-> from, pos |-> end]
        BY <2>2, <3>2, <4>1
      <4>3. written'[l].ptr = from /\ written'[l].pos = end
        BY <4>2
      <4>. QED  BY <1>5, <2>2, <3>2, <4>2, <4>3
    <3>. QED  BY <3>1, <3>2
  <2>. QED  BY <1>1, <2>1, <2>3 DEF PlacesInv
<1>. QED  BY <1>10, <1>11, <1>12 DEF RoomKept

(* RoomKept, action by action.                                             *)
LEMMA CallReturns ==
  ASSUME RoomKept, Return
  PROVE  RoomKept'
<1>1. TypeOK /\ RoomInv /\ PlacesInv
  BY DEF RoomKept
<1>2. PICK n : n = Len(stack) - 1
  OBVIOUS
<1>3. /\ n \in DOMAIN stack /\ Len(stack) \in DOMAIN stack /\ n # Len(stack)
      /\ stack' \in Seq(Calls) /\ DOMAIN stack' = DOMAIN stack \ {Len(stack)} /\ stack' # <<>>
      /\ \A k \in DOMAIN stack' : k # n => stack'[k] = stack[k]
      /\ stack'[n] = [stack[n] EXCEPT !.offset = Top.to]
  <2>1. /\ n \in DOMAIN stack /\ Len(stack) \in DOMAIN stack
        /\ stack' \in Seq(Calls) /\ Len(stack') = n
        /\ \A k \in 1..(n - 1) : stack'[k] = stack[k]
        /\ stack'[n] = [stack[n] EXCEPT !.offset = Top.to]
    BY <1>1, <1>2, ReturnShape
  <2>2. DOMAIN stack = 1..Len(stack) /\ DOMAIN stack' = 1..Len(stack') /\ Len(stack) \in Nat
    BY <1>1, <2>1 DEF TypeOK
  <2>. QED  BY <1>2, <2>1, <2>2
<1>4. /\ stack # <<>> /\ phase = "store" /\ Top = stack[Len(stack)]
      /\ Top.at > Len(Top.members)
      /\ UNCHANGED <<phase, inPlace, origin, size, buf, end, written, strings, ptrs, filled, placed>>
  BY <1>1, <1>3, TopIsCall DEF Return, contextVars
<1>5. \A k \in DOMAIN stack' : /\ stack'[k].to = stack[k].to /\ stack'[k].at = stack[k].at
                               /\ stack'[k].members = stack[k].members
                               /\ stack'[k].offset = IF k = n THEN Top.to ELSE stack[k].offset
  BY <1>1, <1>3, CallFacts DEF Calls
<1>6. \A k \in DOMAIN stack' : k \in DOMAIN stack /\ Pending(k)' = Pending(k)
  BY <1>3, <1>5 DEF Pending
<1>7. Pending(Len(stack)) = {}
  <2>1. /\ Top.to \in Nat /\ Top.at \in Nat /\ Len(Top.members) \in Nat
        /\ Top.at > Len(Top.members)
    BY <1>1, <1>3, <1>4, CallFacts, Bounds
  <2>2. Pending(Len(stack)) = (Top.to + Top.at - 1)..(Top.to + Len(Top.members) - 1)
    BY <1>4 DEF Pending
  <2>. QED  BY <2>1, <2>2
<1>8. Reserved' = Reserved
  BY <1>4 DEF Reserved
<1>9. TypeOK'
  <2>1. \A k \in DOMAIN stack' : stack'[k].at <= Len(stack'[k].members) + 1
    BY <1>1, <1>5, <1>6, CallFacts
  <2>. QED  BY <1>1, <1>3, <1>4, <2>1 DEF TypeOK
<1>10. RoomInv'
  <2>2. \A k \in DOMAIN stack' : /\ stack'[k].to \in Reserved' /\ Pending(k)' \subseteq Reserved'
                                 /\ Pending(k)' \intersect filled' = {}
    BY <1>1, <1>4, <1>5, <1>6, <1>8 DEF RoomInv
  <2>3. \A k, l \in DOMAIN stack' : k # l => Pending(k)' \intersect Pending(l)' = {}
    BY <1>1, <1>6 DEF RoomInv
  <2>4. \A p \in Reserved' : p \in filled' \/ \E k \in DOMAIN stack' : p \in Pending(k)'
    BY <1>1, <1>3, <1>4, <1>6, <1>7, <1>8 DEF RoomInv
  <2>. QED  BY <1>1, <1>3, <1>4, <1>8, <2>2, <2>3, <2>4 DEF RoomInv
<1>11. PlacesInv'
  <2>1. Top.to \in Reserved
    BY <1>1, <1>3, <1>4 DEF RoomInv
  <2>2. \A k \in DOMAIN stack' : stack'[k].offset # 0 => stack'[k].offset \in Reserved'
    BY <1>1, <1>5, <1>6, <1>8, <2>1 DEF PlacesInv
  <2>. QED  BY <1>1, <1>4, <1>8, <2>2 DEF PlacesInv
<1>. QED  BY <1>9, <1>10, <1>11 DEF RoomKept

-----------------------------------------------------------------------------
(* The steps of a store, one lemma each.                                   *)

LEMMA WriteIsCell ==
  ASSUME TypeOK, NEW p \in Positions, NEW c \in Cells, Write(p, c)
  PROVE  buf' \in [Positions -> Cells] /\ filled' = filled \union {p}
<1>1. buf \in [Positions -> Cells]
  BY DEF TypeOK
<1>. QED  BY <1>1 DEF Write

LEMMA ValueRoom ==
  ASSUME RoomKept, StoreValue
  PROVE  RoomKept'
<1>1. TypeOK /\ Running
  BY DEF RoomKept, StoreValue
<1>2. Value \in Cells /\ Target \in Positions
  BY <1>1, MemberIsRead, TargetIsPending
<1>3. /\ Write(Target, Value) /\ stack' = NextMember
      /\ UNCHANGED <<phase, inPlace, origin, size, end, written, strings, ptrs, placed>>
  BY DEF StoreValue, contextVars
<1>. QED  BY <1>1, <1>2, <1>3, WriteIsCell, WordWritten

LEMMA OffsetRoom ==
  ASSUME RoomKept, StoreOffset
  PROVE  RoomKept'
<1>1. TypeOK /\ Running
  BY DEF RoomKept, StoreOffset
<1>2. Target \in Positions /\ Top.offset \in Nat
  BY <1>1, MemberIsRead, TargetIsPending, TopIsCall, CallFacts, Bounds
<1>3. Cell("off", Top.offset) \in Cells
  BY <1>2 DEF Cell, Cells
<1>4. /\ Write(Target, Cell("off", Top.offset)) /\ stack' = NextMember
      /\ ptrs' = ptrs \/ ptrs' = Append(ptrs, Target)
      /\ UNCHANGED <<phase, inPlace, origin, size, end, written, strings, placed>>
  BY DEF StoreOffset
<1>. QED  BY <1>1, <1>2, <1>3, <1>4, WriteIsCell, WordWritten

LEMMA StringRoom ==
  ASSUME RoomKept, FindString
  PROVE  RoomKept'
<1>1. /\ TypeOK /\ RoomInv /\ PlacesInv /\ Running /\ Value.tag = "addr" /\ Readable(Value.v)
      /\ UNCHANGED <<phase, inPlace, origin, size, written, ptrs, placed>>
  BY DEF RoomKept, FindString, Refers
<1>2. end \in HeaderCells..(LastCell + 1) /\ end \in Nat /\ LastCell \in Nat
      /\ filled \subseteq Reserved /\ buf \in [Positions -> Cells]
      /\ strings \in Seq([str : Nat, text : Cells, offset : Positions])
  BY <1>1, Bounds DEF TypeOK, RoomInv
<1>3. \A i \in DOMAIN strings : strings[i].offset \in filled /\ strings[i].offset \in Positions
  <2>1. filled \subseteq Positions /\ \A i \in DOMAIN strings : strings[i].offset \in filled
    BY <1>1 DEF PlacesInv, TypeOK
  <2>. QED  BY <2>1
<1>4. CASE KnownString
  <2>1. PICK i \in DOMAIN strings : stack' = WithOffset(strings[i].offset)
    BY <1>4 DEF KnownString, SameStrings
  <2>2. end' = end /\ strings' = strings /\ buf' = buf /\ filled' = filled
    BY <1>4 DEF KnownString
  <2>3. Reserved' = Reserved
    BY <2>2 DEF Reserved
  <2>4. end' \in end..(LastCell + 1) /\ filled' = filled \union end..(end' - 1)
    BY <1>2, <2>2
  <2>5. strings[i].offset \in Reserved'
    BY <1>2, <1>3, <2>3
  <2>. QED  BY <1>1, <1>2, <1>3, <2>1, <2>2, <2>4, <2>5, OffsetFound
<1>5. CASE AppendString
  <2>1. /\ end' = end + 1 /\ end + 1 <= LastCell + 1 /\ stack' = WithOffset(end)
        /\ Write(end, Read(Value.v))
        /\ strings' = Append(strings, [str |-> Value.v, text |-> Read(Value.v), offset |-> end])
    BY <1>5 DEF AppendString, Room
  <2>2. end \in Positions
    BY <1>2, <2>1 DEF Positions
  <2>3. Value.v \in Nat /\ Read(Value.v) \in Cells
    BY <1>1, ReadIsCell
  <2>4. buf' \in [Positions -> Cells] /\ filled' = filled \union {end}
    BY <1>1, <2>1, <2>2, <2>3, WriteIsCell
  <2>5. end' \in end..(LastCell + 1) /\ end..(end' - 1) = {end}
    BY <1>2, <2>1
  <2>6. filled' = filled \union end..(end' - 1)
    BY <2>4, <2>5
  <2>7. end \in Reserved'
    BY <1>1, <2>5, ReservedGrows
  <2> DEFINE string == [str |-> Value.v, text |-> Read(Value.v), offset |-> end]
  <2>8. string \in [str : Nat, text : Cells, offset : Positions] /\ string.offset = end
    BY <2>2, <2>3
  <2> HIDE DEF string
  <2>9. /\ strings' \in Seq([str : Nat, text : Cells, offset : Positions])
        /\ \A i \in DOMAIN strings' :
             (i \in DOMAIN strings /\ strings'[i] = strings[i]) \/ strings'[i] = string
    <3>1. strings' = Append(strings, string)
      BY <2>1 DEF string
    <3>. QED  BY <1>2, <2>8, <3>1
  <2>10. \A i \in DOMAIN strings' : strings'[i].offset \in filled'
    BY <1>3, <2>4, <2>8, <2>9
  <2>. QED  BY <1>1, <2>1, <2>4, <2>5, <2>6, <2>7, <2>9, <2>10, OffsetFound
<1>. QED  BY <1>4, <1>5 DEF FindString

LEMMA PointeeRoom ==
  ASSUME RoomKept, FindPointee
  PROVE  RoomKept'
<1>1. /\ TypeOK /\ RoomInv /\ PlacesInv /\ Running
      /\ UNCHANGED <<phase, inPlace, origin, size, buf, end, written, strings, ptrs, filled, placed>>
  BY DEF RoomKept, FindPointee, Refers, contextVars
<1>2. PICK i \in DOMAIN written : stack' = WithOffset(written[i].pos)
  BY DEF FindPointee, WrittenAt
<1>3. written[i].pos \in Reserved' /\ Reserved' = Reserved
  BY <1>1 DEF PlacesInv, Reserved
<1>4. end' \in end..(LastCell + 1) /\ filled' = filled \union end..(end' - 1)
  BY <1>1, Bounds DEF TypeOK
<1>5. /\ strings' \in Seq([str : Nat, text : Cells, offset : Positions])
      /\ \A k \in DOMAIN strings' : strings'[k].offset \in filled'
      /\ buf' \in [Positions -> Cells]
  BY <1>1 DEF PlacesInv, TypeOK
<1>. QED  BY <1>1, <1>2, <1>3, <1>4, <1>5, OffsetFound

LEMMA PointedRoom ==
  ASSUME RoomKept, StorePointee
  PROVE  RoomKept'
<1> DEFINE members == Members[Member.of]
<1>1. /\ TypeOK /\ Running /\ Value.tag = "addr" /\ Readable(Value.v) /\ WrittenAt = {}
      /\ UNCHANGED <<phase, inPlace, origin, size, buf, strings, ptrs, filled>>
  BY DEF RoomKept, StorePointee, Refers
<1>2. Value.v \in Nat /\ members \in Seq(MemberDescs) /\ members # <<>>
  BY <1>1, MemberIsRead, ReadIsCell, MembersOfType DEF MemberDescs
<1>3. \A i \in DOMAIN written : written[i].ptr # Value.v
  BY <1>1 DEF WrittenAt
<1>4. /\ Room(Len(members)) /\ end' = end + Len(members)
      /\ stack' = Append(stack, Call(Value.v, end, members))
      /\ written' = Append(written, [ptr |-> Value.v, pos |-> end])
  BY DEF StorePointee
<1> HIDE DEF members
<1>. QED  BY <1>1, <1>2, <1>3, <1>4, CallMade

LEMMA ArrayRoom ==
  ASSUME RoomKept, StoreArray
  PROVE  RoomKept'
<1> DEFINE members == Repeat(Members[Member.of], Member.count)
<1>1. /\ TypeOK /\ Running /\ Value.tag = "addr" /\ Readable(Value.v)
      /\ UNCHANGED <<phase, inPlace, origin, size, buf, written, strings, ptrs, filled>>
  BY DEF RoomKept, StoreArray, Refers
<1>2. Value.v \in Nat /\ members \in Seq(MemberDescs) /\ Len(members) # 0
  BY <1>1, MemberIsRead, ReadIsCell, MembersOfArray DEF MemberDescs
<1>3. /\ Room(Len(members)) /\ end' = end + Len(members)
      /\ stack' = Append(stack, Call(Value.v, end, members))
  BY DEF StoreArray
<1> HIDE DEF members
<1>4. members # <<>>
  BY <1>2
<1>. QED  BY <1>1, <1>2, <1>3, <1>4, CallMade

(* A store that starts: nothing is reserved, written or remembered.        *)
NothingStored ==
  /\ stack = <<>> /\ end = HeaderCells /\ filled = {} /\ placed = {}
  /\ written = <<>> /\ strings = <<>> /\ ptrs = <<>>
  /\ phase \in {"store", "stored"} /\ inPlace \in BOOLEAN /\ (~inPlace => origin \in Memories)
  /\ size \in Nat /\ buf \in [Positions -> Cells]

(* Before a store nothing is written and nothing remembered.               *)
LEMMA NothingStoredRoom == NothingStored => RoomKept
<1> SUFFICES ASSUME NothingStored PROVE RoomKept
  OBVIOUS
<1> USE DEF NothingStored
<1>1. Reserved = {} /\ DOMAIN stack = {} /\ DOMAIN strings = {} /\ DOMAIN ptrs = {} /\ DOMAIN written = {}
  BY Bounds DEF Reserved
<1>2. TypeOK
  BY <1>1, Bounds DEF TypeOK
<1>3. RoomInv /\ PlacesInv
  BY <1>1 DEF RoomInv, PlacesInv
<1>. QED  BY <1>2, <1>3 DEF RoomKept

LEMMA InitRoom ==
  ASSUME Init
  PROVE  RoomKept
<1>1. size \in Nat /\ phase \in {"store", "stored"} /\ inPlace \in BOOLEAN /\ (~inPlace => origin \in Memories)
  BY Bounds DEF Init
<1>2. buf \in [Positions -> Cells]
  <2>1. Zero \in Cells
    BY DEF Zero, Cell, Cells
  <2>. QED  BY <2>1, StoreAssumption DEF Init
<1>. QED  BY <1>1, <1>2, NothingStoredRoom DEF Init, NothingStored

LEMMA NewContextRoom ==
  ASSUME RoomKept, StoreWithNeededSize \/ StoreInPlace
  PROVE  RoomKept'
<1>1. TypeOK
  BY DEF RoomKept
<1>2. /\ stack' = <<>> /\ end' = HeaderCells /\ filled' = {} /\ placed' = {}
      /\ written' = <<>> /\ strings' = <<>> /\ ptrs' = <<>> /\ phase' = "store"
  BY DEF StoreWithNeededSize, StoreInPlace, NewContext
<1>3. /\ inPlace' \in BOOLEAN /\ (~inPlace' => origin' \in Memories)
      /\ size' \in Nat /\ buf' \in [Positions -> Cells]
  <2>1. CASE StoreWithNeededSize
    BY <1>1, <2>1, Bounds DEF StoreWithNeededSize, TypeOK
  <2>2. CASE StoreInPlace
    <3>1. inPlace' = TRUE /\ size' = size /\ size \in Nat /\ buf \in [Positions -> Cells]
      BY <1>1, <2>2 DEF StoreInPlace, TypeOK
    <3>2. buf' = [p \in Positions |-> IF buf[p].tag = "off" THEN Cell("addr", buf[p].v) ELSE buf[p]]
      BY <2>2 DEF StoreInPlace
    <3>3. \A p \in Positions : Cell("addr", buf[p].v) \in Cells
      BY <3>1 DEF Cell, Cells
    <3>. QED  BY <3>1, <3>2, <3>3
  <2>. QED  BY <2>1, <2>2
<1>4. NothingStored'
  BY <1>2, <1>3 DEF NothingStored
<1>. QED  BY <1>4, NothingStoredRoom, PTL

LEMMA RefusedRoom ==
  ASSUME RoomKept, RefuseBuffer
  PROVE  RoomKept'
<1>1. /\ TypeOK /\ RoomInv /\ PlacesInv /\ stack = <<>> /\ phase' = "too_small"
      /\ UNCHANGED <<inPlace, origin, size, buf, stack, end, written, strings, ptrs, filled, placed>>
  BY DEF RoomKept, RefuseBuffer, contextVars
<1>2. TypeOK'
  BY <1>1 DEF TypeOK
<1>3. RoomInv' /\ PlacesInv'
  BY <1>1 DEF RoomInv, PlacesInv, Reserved, Pending, Dummy
<1>. QED  BY <1>2, <1>3 DEF RoomKept

LEMMA RootRoom ==
  ASSUME RoomKept, StoreRoot
  PROVE  RoomKept'
<1> DEFINE address == IF inPlace THEN HeaderCells ELSE Instance
           members == Members[Root]
           call == Call(address, HeaderCells, members)
<1>1. /\ TypeOK /\ RoomInv /\ PlacesInv /\ phase = "store" /\ stack = <<>>
      /\ UNCHANGED <<phase, inPlace, origin, size, buf, strings, ptrs, filled>>
  BY DEF RoomKept, StoreRoot
<1>2. filled = {} /\ end = HeaderCells /\ strings = <<>> /\ ptrs = <<>> /\ written = <<>>
  BY <1>1 DEF RoomInv
<1>3. members \in Seq(MemberDescs) /\ Len(members) \in Nat \ {0}
  BY Bounds, MembersOfType
<1>4. /\ stack' = <<call>> /\ written' = <<[ptr |-> address, pos |-> HeaderCells]>>
      /\ end' = HeaderCells + Len(members) /\ HeaderCells + Len(members) <= LastCell + 1
  BY <1>2 DEF StoreRoot, Room
<1>5. address \in Nat /\ HeaderCells \in Positions /\ HeaderCells \in Nat \ {0}
  BY Bounds
<1>6. /\ call \in Calls /\ call.to = HeaderCells /\ call.at = 1 /\ call.members = members
      /\ call.offset = 0
  BY <1>3, <1>5, Bounds DEF Calls, Call
<1>7. end' \in HeaderCells..(LastCell + 1)
  BY <1>3, <1>4, Bounds
<1> HIDE DEF members, call, address
<1>8. /\ stack' \in Seq(Calls) /\ DOMAIN stack' = {1} /\ stack'[1] = call /\ stack' # <<>>
  BY <1>4, <1>6
<1>9. Reserved' = HeaderCells..(HeaderCells + Len(members) - 1) /\ HeaderCells \in Reserved'
  BY <1>3, <1>4, <1>5 DEF Reserved
<1>10. Pending(1)' = Reserved'
  BY <1>3, <1>5, <1>6, <1>8, <1>9 DEF Pending
<1>11. /\ written' \in Seq([ptr : Nat, pos : Positions]) /\ DOMAIN written' = {1}
       /\ written'[1].pos = HeaderCells
  <2>1. [ptr |-> address, pos |-> HeaderCells] \in [ptr : Nat, pos : Positions]
    BY <1>5
  <2>. QED  BY <1>4, <2>1
<1>12. TypeOK'
  <2>1. \A k \in DOMAIN stack' : stack'[k].at <= Len(stack'[k].members) + 1
    BY <1>3, <1>6, <1>8
  <2>. QED  BY <1>1, <1>7, <1>8, <1>11, <2>1 DEF TypeOK
<1>13. RoomInv'
  BY <1>1, <1>2, <1>6, <1>8, <1>9, <1>10 DEF RoomInv
<1>14. PlacesInv'
  BY <1>1, <1>2, <1>6, <1>8, <1>9, <1>11 DEF PlacesInv
<1>. QED  BY <1>12, <1>13, <1>14 DEF RoomKept

(* When the last call is done there is nothing left to write.              *)
LEMMA DoneRoom ==
  ASSUME RoomKept, StoreDone
  PROVE  RoomKept'
<1>1. /\ TypeOK /\ RoomInv /\ PlacesInv /\ phase' \in {"too_small", "stored"} /\ stack' = <<>>
      /\ UNCHANGED <<inPlace, origin, size, buf, end, written, strings, ptrs, filled, placed>>
  BY DEF RoomKept, StoreDone, contextVars
<1>2. Len(stack) = 1 /\ Top.at > Len(Top.members) /\ stack # <<>>
  BY DEF StoreDone
<1>3. DOMAIN stack = {1} /\ Top = stack[1]
  BY <1>1, <1>2, TopIsCall
<1>4. Pending(1) = {}
  <2>1. Top.to \in Nat /\ Top.at \in Nat /\ Len(Top.members) \in Nat
    BY <1>1, <1>3, CallFacts, Bounds
  <2>. QED  BY <1>2, <1>3, <2>1 DEF Pending
<1>5. filled = Reserved
  BY <1>1, <1>2, <1>3, <1>4 DEF RoomInv
<1>6. /\ Reserved' = Reserved /\ (Dummy <=> Dummy')
      /\ phase' = "stored" => Dummy \/ end <= size
  BY <1>1, Bounds DEF Reserved, Dummy, StoreDone, TypeOK
<1>7. TypeOK'
  BY <1>1 DEF TypeOK
<1>8. RoomInv' /\ PlacesInv'
  BY <1>1, <1>5, <1>6 DEF RoomInv, PlacesInv
<1>. QED  BY <1>7, <1>8 DEF RoomKept

-----------------------------------------------------------------------------
(* The room of every reachable state.                                      *)

LEMMA StutterRoom ==
  ASSUME RoomKept, UNCHANGED vars
  PROVE  RoomKept'
BY DEF RoomKept, TypeOK, RoomInv, PlacesInv, Reserved, Pending, Dummy, vars, contextVars, history

(* RoomKept is inductive.                                                  *)
LEMMA NextRoom ==
  ASSUME RoomKept, [Next]_vars
  PROVE  RoomKept'
BY StutterRoom, RefusedRoom, RootRoom, ValueRoom, StringRoom, PointeeRoom, PointedRoom,
   ArrayRoom, OffsetRoom, CallReturns, DoneRoom, NewContextRoom
DEF Next, StoreStep

(* Whatever is stored, from memory or over itself, at any depth of calls:  *)
(* the calls write rooms of their own, each word once, and what is         *)
(* remembered of them is in the blob.                                      *)
THEOREM RoomIsKept == Spec => []RoomKept
<1>1. Init => RoomKept
  BY InitRoom
<1>2. RoomKept /\ [Next]_vars => RoomKept'
  BY NextRoom
<1>. QED  BY <1>1, <1>2, PTL DEF Spec

(* A stored blob is well formed: it has no holes that would hold what was  *)
(* in the buffer before, and all places remembered are in it.              *)
THEOREM BlobsWellFormed == Spec => []WellFormed
<1>1. RoomKept => WellFormed
  BY DEF RoomKept, RoomInv, WellFormed, NoHoles, Written, Reserved
<1>. QED  BY <1>1, RoomIsKept, PTL

-----------------------------------------------------------------------------
(* What a store does to the blob is the writing part of PtrChain.          *)

(* A word that is no offset of ptrs is nothing to the chain.               *)
LEMMA OtherWords ==
  ASSUME RoomKept, ptrs' = ptrs, \A i \in DOMAIN ptrs : buf'[ptrs[i]] = buf[ptrs[i]]
  PROVE  OffsetWords' = OffsetWords
<1>1. \A p : OffsetAt(p)' = OffsetAt(p)
  BY DEF OffsetAt, ToSet
<1>. QED  BY <1>1 DEF OffsetWords

(* The steps of a store, seen as steps of the writer of PtrChain.          *)
LEMMA ChainStutters ==
  ASSUME RoomKept, UNCHANGED <<end, ptrs>>,
         \A i \in DOMAIN ptrs : buf'[ptrs[i]] = buf[ptrs[i]]
  PROVE  UNCHANGED Chain!vars
<1>1. OffsetWords' = OffsetWords
  BY OtherWords
<1>2. NoWords' = NoWords
  BY DEF NoWords
<1>. QED  BY <1>1, <1>2 DEF Chain!vars, Chain!blobVars, Chain!loadVars

LEMMA ChainReserves ==
  ASSUME RoomKept, ptrs' = ptrs, end' \in (end + 1)..(LastCell + 1),
         \A i \in DOMAIN ptrs : buf'[ptrs[i]] = buf[ptrs[i]]
  PROVE  Chain!Next
<1>1. OffsetWords' = OffsetWords
  BY OtherWords
<1>2. NoWords' = NoWords
  BY DEF NoWords
<1>3. PICK e : e = end'
  OBVIOUS
<1>4. end < e /\ e <= LastCell + 1 /\ e \in Chain!Positions
  <2>1. end \in Nat /\ LastCell \in Nat /\ e \in (end + 1)..(LastCell + 1)
    BY <1>3, Bounds DEF RoomKept, TypeOK
  <2>. QED  BY <2>1 DEF Chain!Positions
<1>5. Chain!Reserve(e)
  BY <1>1, <1>2, <1>3, <1>4 DEF Chain!Reserve, Chain!loadVars
<1>. QED  BY <1>4, <1>5 DEF Chain!Next, Chain!Pack

(* An offset that is written is new to ptrs and refers into the blob.      *)
LEMMA ChainStores ==
  ASSUME RoomKept, StoreOffset, ~Dummy, end <= size
  PROVE  Chain!Next
<1>1. TypeOK /\ RoomInv /\ PlacesInv /\ Running /\ Top.offset # 0
  BY DEF RoomKept, StoreOffset
<1>2. PICK p : p = Target
  OBVIOUS
<1>3. PICK o : o = Top.offset
  OBVIOUS
<1>4. /\ ptrs' = Append(ptrs, p) /\ Write(p, Cell("off", o))
      /\ UNCHANGED <<phase, size, end, written, strings>>
  BY <1>2, <1>3 DEF StoreOffset
<1>5. p \in Reserved /\ p \notin filled /\ p \in Positions
  BY <1>1, <1>2, TargetIsPending
<1>6. o \in Reserved
  BY <1>1, <1>3, MemberIsRead, TopIsCall DEF PlacesInv
<1>7. /\ end \in Nat /\ end <= LastCell + 1 /\ HeaderCells \in Nat /\ size \in Nat
      /\ LastCell \in Nat /\ buf \in [Positions -> Cells] /\ ptrs \in Seq(Positions)
      /\ \A i \in DOMAIN ptrs : ptrs[i] \in filled
  BY <1>1, Bounds DEF TypeOK, PlacesInv
<1>8. p \in HeaderCells..(end - 1) /\ o \in HeaderCells..(end - 1) /\ p \in Nat /\ o \in Nat
  BY <1>5, <1>6, <1>7 DEF Reserved
<1>9. buf' = [buf EXCEPT ![p] = Cell("off", o)]
  BY <1>4, <1>7, <1>8 DEF Write
<1>10. ToSet(ptrs') = ToSet(ptrs) \union {p} /\ p \notin ToSet(ptrs) /\ ToSet(ptrs) \subseteq Positions
  BY <1>4, <1>5, <1>7 DEF ToSet
<1>11. OffsetAt(p)' = o /\ \A q : q # p => OffsetAt(q)' = OffsetAt(q)
  BY <1>5, <1>7, <1>9, <1>10 DEF OffsetAt, Cell
<1>12. OffsetWords' = [OffsetWords EXCEPT ![p] = o]
  BY <1>11 DEF OffsetWords
<1>13. \A q \in Chain!Slots : q \in Nat /\ q # p
  <2>1. TAKE q \in Chain!Slots
  <2>2. q \in 0..(LastCell + 1) /\ OffsetAt(q) # 0
    BY DEF Chain!Slots, Chain!Positions, OffsetWords
  <2>. QED  BY <1>7, <1>10, <2>2 DEF OffsetAt
<1>14. p \in Chain!Positions /\ o \in Chain!Positions
  BY <1>7, <1>8 DEF Chain!Positions
<1>15. NoWords' = NoWords
  BY DEF NoWords
<1>16. \A q \in Chain!Slots : q + 1 <= p \/ p + 1 <= q
  BY <1>8, <1>13
<1>17. Chain!StorePtr(p, o)
  BY <1>4, <1>8, <1>12, <1>15, <1>16 DEF Chain!StorePtr, Chain!loadVars
<1>. QED  BY <1>14, <1>17 DEF Chain!Next, Chain!Pack

(* A step of a store is a step of the chain's writer, or nothing to it.    *)
LEMMA ChainStep ==
  ASSUME RoomKept, StoreStep, Dummy \/ end' <= size
  PROVE  [Chain!Next]_(Chain!vars)
<1>1. /\ TypeOK /\ RoomInv /\ PlacesInv /\ \A i \in DOMAIN ptrs : ptrs[i] \in filled
      /\ end \in Nat /\ end <= LastCell + 1 /\ LastCell \in Nat /\ HeaderCells \in Nat
  BY Bounds DEF RoomKept, PlacesInv, TypeOK
<1>2. ASSUME buf' = buf, UNCHANGED <<end, ptrs>>
      PROVE  UNCHANGED Chain!vars
  BY <1>2, ChainStutters
<1>3. ASSUME buf' = buf, ptrs' = ptrs, NEW n \in Nat \ {0}, end' = end + n, Room(n)
      PROVE  Chain!Next
  <2>1. end' \in (end + 1)..(LastCell + 1)
    BY <1>1, <1>3 DEF Room
  <2>. QED  BY <1>3, <2>1, ChainReserves
<1>4. ASSUME NEW p, p \notin filled, NEW c, Write(p, c)
      PROVE  \A i \in DOMAIN ptrs : buf'[ptrs[i]] = buf[ptrs[i]]
  <2>1. buf' = IF p < size THEN [buf EXCEPT ![p] = c] ELSE buf
    BY <1>4 DEF Write
  <2>2. \A i \in DOMAIN ptrs : ptrs[i] # p
    BY <1>1, <1>4
  <2>. QED  BY <1>1, <2>1, <2>2 DEF TypeOK
<1>5. CASE RefuseBuffer
  BY <1>2, <1>5 DEF RefuseBuffer, contextVars
<1>6. CASE StoreRoot
  <2>1. Len(Members[Root]) \in Nat \ {0} /\ end = HeaderCells
    BY <1>1, <1>6, Bounds, MembersOfType DEF StoreRoot, RoomInv
  <2>. QED  BY <1>3, <1>6, <2>1 DEF StoreRoot
<1>7. CASE StoreValue
  <2>1. Running /\ Write(Target, Value) /\ UNCHANGED <<end, ptrs>>
    BY <1>7 DEF StoreValue, contextVars
  <2>. QED  BY <1>4, <2>1, TargetIsPending, ChainStutters
<1>8. CASE FindString
  <2>1. CASE KnownString
    BY <1>2, <1>8, <2>1 DEF FindString, KnownString
  <2>2. CASE AppendString
    <3>1. end \notin filled
      BY <1>1 DEF RoomInv, Reserved
    <3>2. Write(end, Read(Value.v)) /\ ptrs' = ptrs /\ end' \in (end + 1)..(LastCell + 1)
      BY <1>1, <1>8, <2>2 DEF FindString, AppendString, Room
    <3>. QED  BY <1>4, <3>1, <3>2, ChainReserves
  <2>. QED  BY <1>8, <2>1, <2>2 DEF FindString
<1>9. CASE FindPointee
  BY <1>2, <1>9 DEF FindPointee, contextVars
<1>10. CASE StorePointee
  <2>1. Len(Members[Member.of]) \in Nat \ {0}
    BY <1>1, <1>10, MemberIsRead, MembersOfType DEF StorePointee, Refers, MemberDescs
  <2>. QED  BY <1>3, <1>10, <2>1 DEF StorePointee
<1>11. CASE StoreArray
  <2>1. Len(Repeat(Members[Member.of], Member.count)) \in Nat \ {0}
    BY <1>1, <1>11, MemberIsRead, MembersOfArray DEF StoreArray, Refers, MemberDescs
  <2>. QED  BY <1>3, <1>11, <2>1 DEF StoreArray
<1>12. CASE StoreOffset
  <2>1. Running /\ Write(Target, Cell("off", Top.offset)) /\ end' = end
    BY <1>12 DEF StoreOffset
  <2>2. CASE Dummy
    <3>1. ptrs' = ptrs
      BY <1>12, <2>2 DEF StoreOffset
    <3>. QED  BY <1>4, <2>1, <3>1, TargetIsPending, ChainStutters
  <2>3. CASE ~Dummy
    BY <1>12, <2>1, <2>3, ChainStores
  <2>. QED  BY <2>2, <2>3
<1>13. CASE Return
  BY <1>2, <1>13 DEF Return, contextVars
<1>14. CASE StoreDone
  BY <1>2, <1>14 DEF StoreDone, contextVars
<1>. QED
  BY <1>5, <1>6, <1>7, <1>8, <1>9, <1>10, <1>11, <1>12, <1>13, <1>14 DEF StoreStep

(* A store that starts is the chain's writer at its start.                 *)
LEMMA NoOffsets ==
  ASSUME ptrs = <<>>
  PROVE  OffsetWords = NoWords
<1>1. \A p : OffsetAt(p) = 0
  BY DEF OffsetAt, ToSet
<1>. QED  BY <1>1 DEF OffsetWords, NoWords

LEMMA ChainStarts == end = HeaderCells /\ ptrs = <<>> => Chain!Init
BY NoOffsets DEF Chain!Init, Chain!Positions, NoWords

(* Every pointer of a store is written once, into room that is reserved,   *)
(* and refers to what is in the blob; each store starts over.  So all that *)
(* is proved of the chains of PtrChain's writer is so for what the graphs  *)
(* of structs are stored as.                                               *)
THEOREM StoreWritesChains == Spec => WritesForChain
<1>1. Init => Chain!Init
  BY ChainStarts DEF Init
<1>2. RoomKept /\ [Next]_vars =>
        [IF phase = "store" THEN Dummy \/ end' <= size => [Chain!Next]_(Chain!vars)
                            ELSE Chain!Init']_vars
  <2>1. CASE UNCHANGED vars
    BY <2>1
  <2>2. ASSUME RoomKept, StoreStep PROVE phase = "store"
    BY <2>2 DEF StoreStep, RefuseBuffer, StoreRoot, StoreValue, FindString, FindPointee,
       StorePointee, StoreArray, StoreOffset, Return, StoreDone, Refers, Running
  <2>3. ASSUME StoreWithNeededSize \/ StoreInPlace PROVE phase # "store" /\ Chain!Init'
    <3>1. (end = HeaderCells /\ ptrs = <<>>)'
      BY <2>3 DEF StoreWithNeededSize, StoreInPlace, NewContext
    <3>2. phase # "store"
      BY <2>3 DEF StoreWithNeededSize, StoreInPlace
    <3>. QED  BY <3>1, <3>2, ChainStarts, PTL
  <2>. QED  BY <2>1, <2>2, <2>3, ChainStep DEF Next
<1>. QED  BY <1>1, <1>2, RoomIsKept, PTL DEF Spec, WritesForChain

-----------------------------------------------------------------------------
(* Strings and offsets of a store from the program's memory.               *)

MemoryWords == ~inPlace => WordsInv

(* WordsInv, for the offset that is written and for all other actions.     *)
LEMMA InitWords == Init => MemoryWords
<1> SUFFICES ASSUME Init PROVE WordsInv
  BY DEF MemoryWords
<1>1. DOMAIN strings = {} /\ DOMAIN ptrs = {}
  BY DEF Init
<1>2. CASE TextBlobs = {}
  <2>1. buf = [p \in Positions |-> Zero] /\ Zero.tag # "off"
    BY <1>2 DEF Init, Zero, Cell
  <2>. QED  BY <1>1, <1>2, <2>1 DEF Init, WordsInv
<1>3. CASE TextBlobs # {}
  <2>1. phase = "stored" /\ filled = {} /\ ~Dummy
    BY <1>3, StoreAssumption DEF Init, Dummy
  <2>. QED  BY <1>1, <1>3, <2>1 DEF WordsInv
<1>. QED  BY <1>2, <1>3

(* Data and zeros are no offsets.                                          *)
LEMMA ValueWords ==
  ASSUME RoomKept, WordsInv, TextBlobs = {}, ~inPlace, StoreValue
  PROVE  WordsInv'
<1>1. /\ TypeOK /\ PlacesInv /\ Running /\ Write(Target, Value)
      /\ UNCHANGED <<inPlace, origin, size, strings, ptrs>>
  BY DEF RoomKept, StoreValue, contextVars
<1>2. Target \notin filled /\ Value \in MemoryCells
  BY <1>1, TargetIsPending, MemberIsRead
<1>3. Value.tag # "off"
  BY <1>2 DEF MemoryCells
<1>4. /\ buf \in [Positions -> Cells]
      /\ \A i \in DOMAIN strings : strings[i].offset \in filled
      /\ \A i \in DOMAIN ptrs : ptrs[i] \in filled
  BY <1>1 DEF TypeOK, PlacesInv
<1>5. \A p \in Positions : buf'[p] = buf[p] \/ (p = Target /\ buf'[p] = Value)
  BY <1>1, <1>4 DEF Write
<1>6. \A p \in filled : buf'[p] = buf[p]
  BY <1>1, <1>2, <1>4 DEF Write
<1>. QED  BY <1>1, <1>3, <1>4, <1>5, <1>6 DEF WordsInv, Dummy

LEMMA OffsetWritten ==
  ASSUME RoomKept, WordsInv, TextBlobs = {}, StoreOffset
  PROVE  WordsInv'
<1>1. /\ TypeOK /\ PlacesInv /\ Running
      /\ UNCHANGED <<inPlace, origin, size, strings>>
  BY DEF RoomKept, StoreOffset
<1>2. PICK p : p = Target
  OBVIOUS
<1>3. PICK c : c = Cell("off", Top.offset)
  OBVIOUS
<1>4. /\ Write(p, c) /\ c.tag = "off" /\ p \notin filled /\ p \in Positions
      /\ ptrs' = IF Dummy THEN ptrs ELSE Append(ptrs, p)
  BY <1>1, <1>2, <1>3, TargetIsPending DEF StoreOffset, Cell
<1>5. /\ buf \in [Positions -> Cells] /\ ptrs \in Seq(Positions) /\ size \in Nat
      /\ \A i \in DOMAIN strings : strings[i].offset \in filled
      /\ \A i \in DOMAIN ptrs : ptrs[i] \in filled
  BY <1>1 DEF TypeOK, PlacesInv
<1>6. \A q \in filled : buf'[q] = buf[q]
  BY <1>4, <1>5 DEF Write
<1>7. CASE Dummy
  <2>1. size = 0 /\ buf' = buf /\ ptrs' = ptrs
    BY <1>4, <1>5, <1>7, Bounds DEF Dummy, Write
  <2>. QED  BY <1>1, <2>1 DEF WordsInv, Dummy
<1>8. CASE ~Dummy
  <2>1. PICK l : l = Len(ptrs) + 1
    OBVIOUS
  <2>2. /\ DOMAIN ptrs' = DOMAIN ptrs \union {l} /\ ptrs'[l] = p
        /\ \A i \in DOMAIN ptrs : ptrs'[i] = ptrs[i]
    BY <1>4, <1>5, <1>8, <2>1
  <2>3. p < size => buf'[p] = c
    BY <1>4, <1>5 DEF Write
  <2>4. \A q \in Positions : q # p => buf'[q] = buf[q]
    BY <1>4, <1>5 DEF Write
  <2>5. \A q \in Positions : buf'[q].tag = "off" => \E i \in DOMAIN ptrs' : ptrs'[i] = q
    BY <2>2, <2>4 DEF WordsInv
  <2>6. \A i \in DOMAIN ptrs' : ptrs'[i] < size => buf'[ptrs'[i]].tag = "off"
    BY <1>4, <1>5, <1>6, <2>2, <2>3 DEF WordsInv
  <2>7. ~Dummy'
    BY <1>1, <1>8 DEF Dummy
  <2>. QED  BY <1>1, <1>5, <1>6, <2>5, <2>6, <2>7 DEF WordsInv
<1>. QED  BY <1>7, <1>8

(* A string is appended only when no other is equal to it.                 *)
LEMMA StringWords ==
  ASSUME RoomKept, WordsInv, TextBlobs = {}, ~inPlace, FindString
  PROVE  WordsInv'
<1>1. /\ TypeOK /\ RoomInv /\ PlacesInv /\ Running /\ Value.tag = "addr" /\ Readable(Value.v)
      /\ UNCHANGED <<inPlace, origin, size, ptrs>>
  BY DEF RoomKept, FindString, Refers
<1>2. CASE KnownString
  BY <1>1, <1>2 DEF KnownString, WordsInv, Dummy
<1>3. CASE SameStrings = {} /\ AppendString
  <2>1. PICK a : a = Value.v
    OBVIOUS
  <2>2. PICK c : c = origin[a]
    OBVIOUS
  <2>3. a \in DOMAIN origin /\ c \in MemoryCells /\ Read(a) = c
    BY <1>1, <2>1, <2>2, ReadIsCell
  <2>4. c.tag # "off" /\ c \in Cells
    BY <2>3 DEF MemoryCells, Cells
  <2>5. PICK string : string = [str |-> a, text |-> c, offset |-> end]
    OBVIOUS
  <2>6. string.str = a /\ string.text = c /\ string.offset = end
    BY <2>5
  <2>7. Write(end, c) /\ strings' = Append(strings, string) /\ end + 1 <= LastCell + 1
    BY <1>3, <2>1, <2>3, <2>5 DEF AppendString, Room
  <2>8. /\ buf \in [Positions -> Cells] /\ size \in Nat /\ end \in Positions
        /\ strings \in Seq([str : Nat, text : Cells, offset : Positions])
    <3>1. /\ buf \in [Positions -> Cells] /\ size \in Nat /\ end \in HeaderCells..(LastCell + 1)
          /\ strings \in Seq([str : Nat, text : Cells, offset : Positions])
      BY <1>1 DEF TypeOK
    <3>. QED  BY <2>7, <3>1, Bounds
  <2>9. end \notin filled
    BY <1>1, <2>8, Bounds DEF RoomInv, Reserved
  <2>10. /\ \A i \in DOMAIN strings : strings[i].offset \in filled
         /\ \A i \in DOMAIN ptrs : ptrs[i] \in filled
    BY <1>1 DEF PlacesInv
  <2>11. \A q \in filled : buf'[q] = buf[q]
    BY <2>7, <2>8, <2>9 DEF Write
  <2>12. end < size => buf'[end] = c
    BY <2>7, <2>8 DEF Write
  <2>13. \A q \in Positions : buf'[q] = buf[q] \/ buf'[q] = c
    BY <2>7, <2>8 DEF Write
  <2>14. \A i \in DOMAIN strings : strings[i].str \in DOMAIN origin /\ strings[i].text = origin[strings[i].str]
    BY DEF WordsInv
  <2>15. \A i \in DOMAIN strings : strings[i].text # c
    <3>1. TAKE i \in DOMAIN strings
    <3>2. Read(strings[i].str) = strings[i].text
      BY <2>14 DEF Read
    <3>3. ~SameString(strings[i])
      BY <1>3 DEF SameStrings
    <3>. QED  BY <2>1, <2>3, <3>2, <3>3 DEF SameString
  <2>16. PICK l : l = Len(strings) + 1
    OBVIOUS
  <2>17. /\ DOMAIN strings' = DOMAIN strings \union {l} /\ strings'[l] = string
         /\ \A i \in DOMAIN strings : strings'[i] = strings[i]
    BY <2>7, <2>8, <2>16
  <2>18. \A i \in DOMAIN strings' :
           /\ strings'[i].str \in DOMAIN origin'
           /\ strings'[i].text = origin'[strings'[i].str]
           /\ strings'[i].offset < size' => buf'[strings'[i].offset] = strings'[i].text
    BY <1>1, <2>2, <2>3, <2>6, <2>10, <2>11, <2>12, <2>17 DEF WordsInv
  <2>19. \A i, j \in DOMAIN strings' :
           strings'[i].text = strings'[j].text \/ strings'[i].offset = strings'[j].offset => i = j
    BY <2>6, <2>9, <2>10, <2>15, <2>17 DEF WordsInv
  <2>20. \A p \in Positions : buf'[p].tag = "off" => \E i \in DOMAIN ptrs : ptrs[i] = p
    BY <2>4, <2>13 DEF WordsInv
  <2>21. \A i \in DOMAIN ptrs : ptrs[i] < size => buf'[ptrs[i]].tag = "off"
    BY <2>10, <2>11 DEF WordsInv
  <2>. QED  BY <1>1, <2>18, <2>19, <2>20, <2>21 DEF WordsInv, Dummy
<1>. QED  BY <1>2, <1>3 DEF FindString

(* WordsInv is inductive, next to RoomKept, while memory is no buffer.     *)
LEMMA NextWords ==
  ASSUME RoomKept, MemoryWords, [Next]_vars
  PROVE  MemoryWords'
<1> SUFFICES ASSUME ~inPlace' PROVE WordsInv'
  BY DEF MemoryWords
<1>1. CASE UNCHANGED vars
  BY <1>1 DEF MemoryWords, WordsInv, Dummy, vars, contextVars
<1>2. CASE Next
  <2>1. ~StoreInPlace
    BY DEF StoreInPlace
  <2>2. inPlace' = inPlace
    BY <1>2, <2>1 DEF Next, StoreStep, RefuseBuffer, StoreRoot, StoreValue, FindString, FindPointee,
       StorePointee, StoreArray, StoreOffset, Return, StoreDone, StoreWithNeededSize
  <2>3. WordsInv /\ ~inPlace
    BY <2>2 DEF MemoryWords
  <2>4. TextBlobs = {}
    <3>1. phase = "store" \/ (phase = "stored" /\ Dummy)
      BY <1>2, <2>1 DEF Next, StoreStep, RefuseBuffer, StoreRoot, StoreValue, FindString, FindPointee,
         StorePointee, StoreArray, StoreOffset, Return, StoreDone, StoreWithNeededSize, Refers, Running
    <3>. QED  BY <2>3, <3>1 DEF WordsInv
  <2>5. ASSUME UNCHANGED <<origin, size, buf, strings, ptrs>>
        PROVE  WordsInv'
    BY <2>3, <2>4, <2>5 DEF WordsInv, Dummy
  <2>6. CASE RefuseBuffer \/ StoreRoot \/ FindPointee \/ StorePointee \/ StoreArray \/ Return \/ StoreDone
    BY <2>5, <2>6 DEF RefuseBuffer, StoreRoot, FindPointee, StorePointee, StoreArray, Return,
       StoreDone, contextVars
  <2>7. CASE StoreWithNeededSize
    <3>1. /\ strings' = <<>> /\ ptrs' = <<>> /\ buf' = buf /\ Dummy
      BY <2>7 DEF StoreWithNeededSize, NewContext
    <3>2. \A p \in Positions : buf[p].tag # "off"
      BY <2>3, <2>4, <3>1 DEF WordsInv
    <3>3. DOMAIN strings' = {} /\ DOMAIN ptrs' = {}
      BY <3>1
    <3>. QED  BY <2>4, <3>1, <3>2, <3>3 DEF WordsInv
  <2>. QED
    BY <1>2, <2>1, <2>3, <2>4, <2>6, <2>7, ValueWords, StringWords, OffsetWritten DEF Next, StoreStep
<1>. QED  BY <1>1, <1>2

(* A store from the program's memory keeps what it remembers of it: its    *)
(* strings have the text that is in memory, and the offsets in the blob    *)
(* are those that ptrs names.                                              *)
THEOREM WordsAreKept == Spec => [](~inPlace => WordsInv)
<1>1. Init => MemoryWords
  BY InitWords
<1>2. RoomKept /\ MemoryWords /\ [Next]_vars => MemoryWords'
  BY NextWords
<1>3. MemoryWords <=> (~inPlace => WordsInv)
  BY DEF MemoryWords
<1>. QED  BY <1>1, <1>2, <1>3, RoomIsKept, PTL DEF Spec

(* In a blob stored from the program's memory equal strings share a place, *)
(* and ptrs names each offset of the blob, and nothing else, once.         *)
THEOREM StringsShared == Spec => [](~inPlace => SharedStrings)
<1>1. RoomKept /\ (~inPlace => WordsInv) => (~inPlace => SharedStrings)
  <2> SUFFICES ASSUME RoomKept, WordsInv, Written PROVE
        /\ \A i, j \in DOMAIN strings :
             buf[strings[i].offset] = buf[strings[j].offset] => i = j
        /\ IsInjective(ptrs)
        /\ ToSet(ptrs) = {p \in Positions : buf[p].tag = "off"}
    BY DEF SharedStrings
  <2>1. PlacesInv /\ filled = Reserved /\ end <= size /\ TextBlobs = {} /\ TypeOK
    BY DEF RoomKept, RoomInv, Written, WordsInv
  <2>2. \A p \in filled : p < size /\ p \in Positions
    <3>1. end \in Nat /\ size \in Nat /\ HeaderCells \in Nat /\ filled \subseteq Positions
      BY <2>1, Bounds DEF TypeOK
    <3>. QED  BY <2>1, <3>1, Bounds DEF Reserved
  <2>3. /\ \A i \in DOMAIN strings : strings[i].offset \in filled
        /\ \A i \in DOMAIN ptrs : ptrs[i] \in filled
    BY <2>1 DEF PlacesInv
  <2>4. \A i, j \in DOMAIN strings : buf[strings[i].offset] = buf[strings[j].offset] => i = j
    BY <2>2, <2>3 DEF WordsInv
  <2>5. IsInjective(ptrs)
    BY <2>1 DEF IsInjective, PlacesInv
  <2>6. ToSet(ptrs) = {p \in Positions : buf[p].tag = "off"}
    BY <2>1, <2>2, <2>3 DEF WordsInv, ToSet
  <2>. QED  BY <2>4, <2>5, <2>6
<1>. QED  BY <1>1, RoomIsKept, WordsAreKept, PTL

-----------------------------------------------------------------------------
(* What a store from the program's memory has placed and written.          *)

(* A step takes nothing back.                                              *)
Grows ==
  /\ placed \subseteq placed' /\ filled \subseteq filled'
  /\ \A p \in filled : buf'[p] = buf[p]
  /\ UNCHANGED <<origin, size>>

(* What has a place keeps it while a store goes on.                        *)
LEMMA PlaceKept ==
  ASSUME Grows, NEW m, NEW c, NEW o, HasPlace(m, c, o)
  PROVE  HasPlace(m, c, o)'
BY DEF Grows, HasPlace, StringKept

LEMMA StoredKept ==
  ASSUME Grows, NEW m, NEW c, NEW d, StoredAs(m, c, d)
  PROVE  StoredAs(m, c, d)'
BY PlaceKept DEF StoredAs

(* A place is inside the blob.                                             *)
LEMMA PlaceFacts ==
  ASSUME TypeOK, PlacedInv, NEW t \in placed
  PROVE  /\ t \in Places /\ t.to \in Nat /\ t.from \in Nat /\ Len(t.members) \in Nat
         /\ t.members \in Seq(MemberDescs) /\ DOMAIN t.members = 1..Len(t.members)
         /\ HeaderCells <= t.to /\ t.to + Len(t.members) <= end /\ t.to \in Positions
         /\ t = Place(t.kind, t.from, t.to, t.members)
<1>1. t \in Places
  BY DEF PlacedInv
<1>2. t.members \in Seq(MemberDescs) /\ t.to \in Positions /\ t.from \in Nat
  BY <1>1 DEF Places
<1>3. t = Place(t.kind, t.from, t.to, t.members)
  BY <1>1 DEF Places, Place
<1>. QED  BY <1>1, <1>2, <1>3, Bounds DEF PlacedInv

(* Old cells stay what they are, so the new ones are to be looked at.      *)
LEMMA CellsKept ==
  ASSUME TypeOK, RoomInv, PlacedInv, CellsInv, Grows, end \in Nat,
         \A t \in placed' : t \in placed \/ (t.to = end /\ filled' = filled),
         \A t \in placed : \A i \in 1..Len(t.members) :
           t.to + i - 1 \in filled' \ filled /\ t.to + i - 1 < size =>
             StoredAs(t.members[i], origin[t.from + i - 1], buf'[t.to + i - 1])
  PROVE  CellsInv'
<1> SUFFICES ASSUME NEW t \in placed', NEW i \in 1..Len(t.members),
                    t.to + i - 1 \in filled', t.to + i - 1 < size
             PROVE  StoredAs(t.members[i], origin[t.from + i - 1], buf[t.to + i - 1])'
  BY DEF CellsInv, Grows
<1>1. PICK p : p = t.to + i - 1
  OBVIOUS
<1>2. PICK m : m = t.members[i]
  OBVIOUS
<1>3. PICK c : c = origin[t.from + i - 1]
  OBVIOUS
<1>4. PICK d : d = buf'[p]
  OBVIOUS
<1>5. StoredAs(m, c, d)
  <2>1. CASE t \in placed /\ p \in filled
    BY <1>1, <1>2, <1>3, <1>4, <2>1 DEF CellsInv, Grows
  <2>2. CASE t \in placed /\ p \notin filled
    BY <1>1, <1>2, <1>3, <1>4, <2>2
  <2>3. CASE t \notin placed
    <3>1. p \in HeaderCells..(end - 1) /\ p = end + i - 1
      BY <1>1, <2>3 DEF RoomInv, Reserved
    <3>. QED  BY <3>1
  <2>. QED  BY <2>1, <2>2, <2>3
<1>6. StoredAs(m, c, d)'
  BY <1>5, StoredKept
<1>. QED  BY <1>1, <1>2, <1>3, <1>4, <1>6 DEF Grows, StoredAs, HasPlace, StringKept

(* A step that makes no call keeps the places and what is remembered.      *)
LEMMA PlacedKept ==
  ASSUME TypeOK, PlacedInv, UNCHANGED <<inPlace, placed, written>>, end' \in Nat, end <= end',
         filled' = {} \/ filled # {} \/ stack # <<>>,
         stack' = <<>> \/ stack # <<>>,
         \A k \in DOMAIN stack' : k \in DOMAIN stack /\ stack'[k].from = stack[k].from
                                  /\ stack'[k].to = stack[k].to /\ stack'[k].members = stack[k].members
  PROVE  PlacedInv'
<1>1. placed' \subseteq Places
  BY DEF PlacedInv
<1>2. \A t \in placed' : HeaderCells <= t.to /\ t.to + Len(t.members) <= end'
  <2>1. TAKE t \in placed'
  <2>2. t.to \in Nat /\ Len(t.members) \in Nat /\ t.to + Len(t.members) <= end /\ HeaderCells <= t.to
        /\ end \in Nat
    BY PlaceFacts, Bounds DEF TypeOK
  <2>. QED  BY <2>2
<1>3. \A k \in DOMAIN stack' : \E t \in placed' :
        t.from = stack'[k].from /\ t.to = stack'[k].to /\ t.members = stack'[k].members
  BY DEF PlacedInv
<1>4. InstancePlace' = InstancePlace
  BY DEF InstancePlace
<1>5. stack' # <<>> \/ filled' # {} => InstancePlace' \in placed'
  BY <1>4 DEF PlacedInv
<1>. QED  BY <1>1, <1>2, <1>3, <1>5 DEF PlacedInv

(* The place of the call at the top, where the current member is a word.   *)
LEMMA TopPlace ==
  ASSUME RoomKept, PlacedInv, stack # <<>>
  PROVE  \E t \in placed : t.from = Top.from /\ t.to = Top.to /\ t.members = Top.members
BY TopIsCall DEF RoomKept, PlacedInv

(* Places lie apart: the current member is a word of no other.             *)
LEMMA TargetPlace ==
  ASSUME RoomKept, PlacedInv, Running, NEW t \in placed, NEW i \in 1..Len(t.members),
         t.to + i - 1 = Target
  PROVE  /\ t.members[i] = Member
         /\ t.from + i - 1 = Source
<1>1. TypeOK /\ stack # <<>>
  BY DEF RoomKept, Running
<1>2. PICK u \in placed : u.from = Top.from /\ u.to = Top.to /\ u.members = Top.members
  BY <1>1, TopPlace
<1>3. Top.at \in 1..Len(u.members) /\ Target = u.to + Top.at - 1
  BY <1>1, <1>2, MemberIsRead DEF Target
<1>4. /\ t.to \in Nat /\ u.to \in Nat /\ Len(t.members) \in Nat /\ Len(u.members) \in Nat
      /\ t.from \in Nat
  BY <1>1, PlaceFacts
<1>5. t = u
  <2>1. t # u => t.to + Len(t.members) <= u.to \/ u.to + Len(u.members) <= t.to
    BY DEF PlacedInv
  <2>2. PICK j : j = Top.at
    OBVIOUS
  <2>3. j \in 1..Len(u.members) /\ i \in 1..Len(t.members) /\ t.to + i = u.to + j
    BY <1>3, <1>4, <2>2
  <2>4. ~(t.to + Len(t.members) <= u.to) /\ ~(u.to + Len(u.members) <= t.to)
    BY <1>4, <2>3
  <2>. QED  BY <2>1, <2>4
<1>6. i = Top.at
  BY <1>3, <1>4, <1>5
<1>. QED  BY <1>2, <1>5, <1>6 DEF Member, Source

(* A call that waits goes on waiting for its place.                        *)
LEMMA CallBelow ==
  ASSUME Grows, CallsInv, NEW k \in DOMAIN stack, k < Len(stack),
         stack'[k] = stack[k], stack'[k + 1].to = stack[k + 1].to
  PROVE  CallInv(k)'
<1>1. PICK m : m = MemberAt(k)
  OBVIOUS
<1>2. PICK c : c = WordAt(k)
  OBVIOUS
<1>3. PICK o : o = stack[k + 1].to
  OBVIOUS
<1>4. /\ stack[k].offset = 0 /\ stack[k].at <= Len(stack[k].members)
      /\ m.kind \in {"ptr", "array"} /\ HasPlace(m, c, o)
  BY <1>1, <1>2, <1>3 DEF CallsInv, CallInv
<1>5. HasPlace(m, c, o)'
  BY <1>4, PlaceKept
<1>6. MemberAt(k)' = m /\ WordAt(k)' = c /\ stack'[k + 1].to = o
  BY <1>1, <1>2, <1>3 DEF MemberAt, WordAt, Grows
<1>. QED  BY <1>4, <1>5, <1>6 DEF CallInv, HasPlace, StringKept

(* CallsInv, for each way the calls change.                                *)
LEMMA CallsOfWord ==
  ASSUME TypeOK, CallsInv, Grows, Running, stack' = NextMember
  PROVE  CallsInv'
<1>1. PICK n : n = Len(stack)
  OBVIOUS
<1>2. /\ DOMAIN stack = 1..n /\ n \in DOMAIN stack /\ DOMAIN stack' = 1..n /\ Len(stack') = n
      /\ \A k \in DOMAIN stack : k # n => stack'[k] = stack[k]
      /\ stack'[n].to = stack[n].to /\ stack'[n].offset = 0
  BY <1>1, MemberIsRead, TopIsCall, NextMemberShape
<1>3. ASSUME NEW k \in DOMAIN stack', k # n
      PROVE  CallInv(k)'
  <2>1. k \in DOMAIN stack /\ k < Len(stack) /\ k + 1 \in DOMAIN stack
    BY <1>1, <1>2, <1>3
  <2>. QED  BY <1>2, <1>3, <2>1, CallBelow
<1>4. CallInv(n)'
  BY <1>2 DEF CallInv
<1>. QED  BY <1>3, <1>4 DEF CallsInv

LEMMA CallsOfOffset ==
  ASSUME TypeOK, CallsInv, Grows, Running, NEW o \in Positions, stack' = WithOffset(o),
         NEW m, NEW c, m = Member, c = origin[Source], HasPlace(m, c, o)'
  PROVE  CallsInv'
<1>1. PICK n : n = Len(stack)
  OBVIOUS
<1>2. /\ DOMAIN stack = 1..n /\ n \in DOMAIN stack /\ DOMAIN stack' = 1..n /\ Len(stack') = n
      /\ Top = stack[n] /\ Top \in Calls
      /\ \A k \in DOMAIN stack : k # n => stack'[k] = stack[k]
      /\ stack'[n] = [Top EXCEPT !.offset = o]
  BY <1>1, MemberIsRead, TopIsCall, WithOffsetShape
<1>3. /\ stack'[n].to = Top.to /\ stack'[n].from = Top.from /\ stack'[n].at = Top.at
      /\ stack'[n].members = Top.members /\ stack'[n].offset = o
  BY <1>2 DEF Calls
<1>4. ASSUME NEW k \in DOMAIN stack', k # n
      PROVE  CallInv(k)'
  <2>1. k \in DOMAIN stack /\ k < Len(stack) /\ k + 1 \in DOMAIN stack
    BY <1>1, <1>2, <1>4
  <2>2. stack'[k + 1].to = stack[k + 1].to
    BY <1>2, <1>3, <2>1
  <2>. QED  BY <1>2, <1>4, <2>1, <2>2, CallBelow
<1>5. CallInv(n)'
  <2>1. Top.at <= Len(Top.members)
    BY DEF Running
  <2>2. MemberAt(n)' = m /\ WordAt(n)' = c
    BY <1>3 DEF MemberAt, WordAt, Member, Source, Grows
  <2>. QED  BY <1>2, <1>3, <2>1, <2>2 DEF CallInv, HasPlace, StringKept
<1>. QED  BY <1>4, <1>5 DEF CallsInv

LEMMA CallsOfCall ==
  ASSUME TypeOK, CallsInv, Grows, Running, Top.offset = 0, Member.kind \in {"ptr", "array"},
         end \in Positions, NEW from \in Nat, NEW members \in Seq(MemberDescs),
         stack' = Append(stack, Call(from, end, members)),
         NEW m, NEW c, NEW o, m = Member, c = origin[Source], o = end, HasPlace(m, c, o)'
  PROVE  CallsInv'
<1>1. PICK n : n = Len(stack)
  OBVIOUS
<1>2. /\ DOMAIN stack = 1..n /\ n \in DOMAIN stack /\ DOMAIN stack' = 1..(n + 1) /\ Len(stack') = n + 1
      /\ Top = stack[n] /\ \A k \in DOMAIN stack : stack'[k] = stack[k]
      /\ stack'[n + 1] = Call(from, end, members)
  BY <1>1, MemberIsRead, TopIsCall, CallShape
<1>3. stack'[n + 1].to = end /\ stack'[n + 1].offset = 0
  BY <1>2 DEF Call
<1>4. ASSUME NEW k \in 1..(n - 1)
      PROVE  CallInv(k)'
  <2>1. k \in DOMAIN stack /\ k < Len(stack) /\ k + 1 \in DOMAIN stack
    BY <1>1, <1>2
  <2>. QED  BY <1>2, <2>1, CallBelow
<1>5. CallInv(n)'
  <2>1. Top.at <= Len(Top.members)
    BY DEF Running
  <2>2. MemberAt(n)' = m /\ WordAt(n)' = c
    BY <1>2 DEF MemberAt, WordAt, Member, Source, Grows
  <2>. QED  BY <1>2, <1>3, <2>1, <2>2 DEF CallInv, HasPlace, StringKept
<1>6. CallInv(n + 1)'
  BY <1>2, <1>3 DEF CallInv
<1>7. \A k \in DOMAIN stack' : k \in 1..(n - 1) \/ k = n \/ k = n + 1
  BY <1>2
<1>. QED  BY <1>4, <1>5, <1>6, <1>7 DEF CallsInv

LEMMA CallsOfReturn ==
  ASSUME TypeOK, CallsInv, Grows, Return
  PROVE  CallsInv'
<1>1. PICK n : n = Len(stack) - 1
  OBVIOUS
<1>2. /\ n \in DOMAIN stack /\ Len(stack) \in DOMAIN stack
      /\ stack' \in Seq(Calls) /\ Len(stack') = n
      /\ \A k \in 1..(n - 1) : stack'[k] = stack[k]
      /\ stack'[n] = [stack[n] EXCEPT !.offset = Top.to]
  BY <1>1, ReturnShape
<1>3. /\ DOMAIN stack = 1..(n + 1) /\ DOMAIN stack' = 1..n /\ stack[n] \in Calls
      /\ Len(stack) = n + 1 /\ Top = stack[n + 1] /\ n \in Nat \ {0}
  BY <1>1, <1>2, TopIsCall DEF TypeOK, Top
<1>4. /\ stack'[n].to = stack[n].to /\ stack'[n].from = stack[n].from
      /\ stack'[n].at = stack[n].at /\ stack'[n].members = stack[n].members
      /\ stack'[n].offset = Top.to
  BY <1>2, <1>3 DEF Calls
<1>5. ASSUME NEW k \in 1..(n - 1)
      PROVE  CallInv(k)'
  <2>1. /\ k \in DOMAIN stack /\ k < Len(stack) /\ k \in DOMAIN stack'
        /\ k + 1 \in 1..(n - 1) \/ k + 1 = n
    BY <1>3
  <2>2. stack'[k + 1].to = stack[k + 1].to
    BY <1>2, <1>4, <2>1
  <2>. QED  BY <1>2, <2>1, <2>2, CallBelow
<1>6. CallInv(n)'
  <2>1. PICK m : m = MemberAt(n)
    OBVIOUS
  <2>2. PICK c : c = WordAt(n)
    OBVIOUS
  <2>3. PICK o : o = Top.to
    OBVIOUS
  <2>4. stack[n].at <= Len(stack[n].members) /\ HasPlace(m, c, o)
    BY <1>3, <2>1, <2>2, <2>3 DEF CallsInv, CallInv
  <2>5. HasPlace(m, c, o)'
    BY <2>4, PlaceKept
  <2>6. MemberAt(n)' = m /\ WordAt(n)' = c
    BY <1>4, <2>1, <2>2 DEF MemberAt, WordAt, Grows
  <2>. QED  BY <1>2, <1>3, <1>4, <2>3, <2>4, <2>5, <2>6 DEF CallInv, HasPlace, StringKept
<1>7. \A k \in DOMAIN stack' : k \in 1..(n - 1) \/ k = n
  BY <1>3
<1>. QED  BY <1>5, <1>6, <1>7 DEF CallsInv

(* A place is added at the end of the blob.                                *)
LEMMA PlacedMore ==
  ASSUME RoomKept, PlacedInv, stack # <<>>,
         NEW t \in Places, t.to = end, end' \in Nat, t.to + Len(t.members) <= end',
         placed' = placed \union {t}, inPlace' = inPlace,
         stack' = Append(stack, Call(t.from, end, t.members)),
         IF t.kind = "ptr" THEN written' = Append(written, [ptr |-> t.from, pos |-> end])
                           ELSE written' = written
  PROVE  PlacedInv'
<1>1. /\ TypeOK /\ end \in Nat /\ HeaderCells \in Nat /\ HeaderCells <= end
      /\ written \in Seq([ptr : Nat, pos : Positions])
  BY Bounds DEF RoomKept, TypeOK
<1>2. /\ t.members \in Seq(MemberDescs) /\ Len(t.members) \in Nat /\ t.from \in Nat /\ t.to \in Positions
  BY DEF Places
<1>3. placed' \subseteq Places
  BY DEF PlacedInv
<1>4. \A u \in placed : /\ u.to \in Nat /\ Len(u.members) \in Nat
                        /\ HeaderCells <= u.to /\ u.to + Len(u.members) <= end
  BY <1>1, PlaceFacts
<1>5. \A u \in placed' : HeaderCells <= u.to /\ u.to + Len(u.members) <= end'
  <2>1. ASSUME NEW u \in placed
        PROVE  HeaderCells <= u.to /\ u.to + Len(u.members) <= end'
    BY <1>1, <1>2, <1>4
  <2>. QED  BY <1>1, <2>1
<1>6. \A u, v \in placed' : u # v => u.to + Len(u.members) <= v.to \/ v.to + Len(v.members) <= u.to
  BY <1>4 DEF PlacedInv
<1>7. PICK l : l = Len(written) + 1
  OBVIOUS
<1>8. /\ \A i \in DOMAIN written : i \in DOMAIN written' /\ written'[i] = written[i]
      /\ \A i \in DOMAIN written' :
           i \in DOMAIN written \/ (t.kind = "ptr" /\ written'[i].ptr = t.from /\ written'[i].pos = t.to)
      /\ t.kind = "ptr" => /\ l \in DOMAIN written'
                           /\ written'[l].ptr = t.from /\ written'[l].pos = t.to
  <2>1. CASE t.kind = "ptr"
    <3>1. PICK w : w = [ptr |-> t.from, pos |-> end]
      OBVIOUS
    <3>2. w.ptr = t.from /\ w.pos = t.to /\ written' = Append(written, w)
      BY <2>1, <3>1
    <3>3. /\ DOMAIN written' = DOMAIN written \union {l} /\ written'[l] = w
          /\ \A i \in DOMAIN written : written'[i] = written[i]
      BY <1>1, <1>7, <3>2
    <3>. QED  BY <3>2, <3>3
  <2>2. CASE t.kind # "ptr"
    BY <2>2
  <2>. QED  BY <2>1, <2>2
<1>9. \A u \in placed' : u.kind = "ptr" =>
        \E i \in DOMAIN written' : written'[i].ptr = u.from /\ written'[i].pos = u.to
  <2>1. ASSUME NEW u \in placed, u.kind = "ptr"
        PROVE  \E i \in DOMAIN written' : written'[i].ptr = u.from /\ written'[i].pos = u.to
    <3>1. PICK i \in DOMAIN written : written[i].ptr = u.from /\ written[i].pos = u.to
      BY <2>1 DEF PlacedInv
    <3>. QED  BY <1>8, <3>1
  <2>. QED  BY <1>8, <2>1
<1>10. \A i \in DOMAIN written' : \E u \in placed' :
         u.kind = "ptr" /\ u.from = written'[i].ptr /\ u.to = written'[i].pos
  <2>1. TAKE i \in DOMAIN written'
  <2>2. CASE i \in DOMAIN written
    <3>1. PICK u \in placed : u.kind = "ptr" /\ u.from = written[i].ptr /\ u.to = written[i].pos
      BY <2>2 DEF PlacedInv
    <3>. QED  BY <1>8, <2>2, <3>1
  <2>. QED  BY <1>8, <2>2
<1>11. \A k \in DOMAIN stack' : \E u \in placed' :
         u.from = stack'[k].from /\ u.to = stack'[k].to /\ u.members = stack'[k].members
  <2>1. PICK n : n = Len(stack) + 1
    OBVIOUS
  <2>2. /\ DOMAIN stack' = DOMAIN stack \union {n} /\ \A k \in DOMAIN stack : stack'[k] = stack[k]
        /\ stack'[n] = Call(t.from, end, t.members)
    BY <1>1, <1>2, <2>1, CallShape
  <2>3. stack'[n].from = t.from /\ stack'[n].to = t.to /\ stack'[n].members = t.members
    BY <2>2 DEF Call
  <2>. QED  BY <2>2, <2>3 DEF PlacedInv
<1>12. InstancePlace' \in placed'
  BY DEF PlacedInv, InstancePlace
<1>. QED  BY <1>3, <1>5, <1>6, <1>9, <1>10, <1>11, <1>12 DEF PlacedInv

-----------------------------------------------------------------------------
(* Whoever refers to an address takes it for one type.                     *)

(* The member that is stored is a slot of the memory.                      *)
LEMMA CurrentSlot ==
  ASSUME RoomKept, PlacedInv, NEW slots, TypedInv(slots), Running
  PROVE  [at |-> Source, member |-> Member] \in slots
<1>1. TypeOK /\ stack # <<>>
  BY DEF RoomKept, Running
<1>2. PICK t \in placed : t.from = Top.from /\ t.to = Top.to /\ t.members = Top.members
  BY <1>1, TopPlace
<1>3. Top.at \in 1..Len(t.members) /\ DOMAIN t.members = 1..Len(t.members)
  BY <1>1, <1>2, MemberIsRead, PlaceFacts
<1>4. [at |-> Source, member |-> Member] \in SlotsAt(t.from, t.members)
  BY <1>2, <1>3 DEF SlotsAt, Source, Member
<1>. QED  BY <1>4 DEF TypedInv

(* So a pointee that is known has the type that the pointer says it has.   *)
LEMMA PointeeHasType ==
  ASSUME RoomKept, PlacedInv, NEW slots, OneType(origin, slots), TypedInv(slots),
         ~inPlace, Refers("ptr"), NEW t \in placed, t.kind = "ptr", t.from = Value.v
  PROVE  t.members = Members[Member.of]
<1>1. /\ TypeOK /\ Running /\ Member.kind = "ptr" /\ Value.tag = "addr"
  BY DEF RoomKept, Refers
<1>2. PICK s : s = [at |-> Source, member |-> Member]
  OBVIOUS
<1>3. s.at = Source /\ s.member = Member /\ s \in slots
  BY <1>1, <1>2, CurrentSlot
<1>4. Value = origin[s.at] /\ s.at \in DOMAIN origin
  BY <1>1, <1>3, MemberIsRead
<1>5. PointsTo(origin, s, {"ptr"})
  BY <1>1, <1>3, <1>4 DEF PointsTo
<1>6. CASE t.from = Instance /\ t.members = Members[Root]
  BY <1>3, <1>4, <1>5, <1>6 DEF OneType
<1>7. CASE \E r \in slots : /\ PointsTo(origin, r, {"ptr"})
                            /\ origin[r.at].v = t.from
                            /\ t.members = Members[r.member.of]
  BY <1>3, <1>4, <1>5, <1>7 DEF OneType
<1>. QED  BY <1>6, <1>7 DEF TypedInv

(* TypedInv, when a place is added and when none is.                       *)
LEMMA TypedMore ==
  ASSUME RoomKept, PlacedInv, NEW slots, OneType(origin, slots), TypedInv(slots),
         ~inPlace, NEW kind \in {"ptr", "array"}, Refers(kind),
         NEW t, t = Place(kind, Value.v, end, ReferredMembers(Member)),
         placed' = placed \union {t}, origin' = origin
  PROVE  TypedInv(slots)'
<1>1. /\ TypeOK /\ Running /\ Member.kind = kind /\ Value.tag = "addr"
  BY DEF RoomKept, Refers
<1>2. PICK s : s = [at |-> Source, member |-> Member]
  OBVIOUS
<1>3. s.at = Source /\ s.member = Member /\ s \in slots
  BY <1>1, <1>2, CurrentSlot
<1>4. Value = origin[s.at] /\ s.at \in DOMAIN origin
  BY <1>1, <1>3, MemberIsRead
<1>5. PointsTo(origin, s, {kind}) /\ PointsTo(origin, s, {"ptr", "array"})
  BY <1>1, <1>3, <1>4 DEF PointsTo
<1>6. t.kind = kind /\ t.from = origin[s.at].v /\ t.members = ReferredMembers(s.member)
  BY <1>3, <1>4 DEF Place
<1>7. SlotsAt(t.from, t.members) \subseteq slots
  BY <1>3, <1>5, <1>6 DEF OneType
<1>8. t.kind = "ptr" => /\ PointsTo(origin, s, {"ptr"}) /\ t.members = Members[s.member.of]
  BY <1>1, <1>3, <1>5, <1>6 DEF ReferredMembers
<1>. QED  BY <1>3, <1>6, <1>7, <1>8 DEF TypedInv, PointsTo

-----------------------------------------------------------------------------
(* The steps of a store from the program's memory, one lemma each.         *)

GraphInv(slots) ==
  OneType(origin, slots) /\ TypedInv(slots) /\ CellsInv /\ PlacedInv /\ CallsInv

LEMMA TypedKept ==
  ASSUME NEW slots, TypedInv(slots), placed' = placed, origin' = origin
  PROVE  TypedInv(slots)'
BY DEF TypedInv, PointsTo

(* The current member is written as what the memory holds.                 *)
LEMMA WordGraph ==
  ASSUME RoomKept, NEW slots, GraphInv(slots), Running, NEW d \in Cells, Write(Target, d),
         StoredAs(Member, origin[Source], d), stack' = NextMember,
         UNCHANGED <<inPlace, origin, size, end, written, placed>>
  PROVE  GraphInv(slots)'
<1>1. /\ TypeOK /\ RoomInv /\ PlacedInv /\ CellsInv /\ CallsInv /\ TypedInv(slots)
      /\ OneType(origin, slots) /\ end \in Nat /\ size \in Nat /\ buf \in [Positions -> Cells]
  BY Bounds DEF RoomKept, GraphInv, TypeOK
<1>2. Target \notin filled /\ Target \in Positions
  BY TargetIsPending
<1>3. /\ filled' = filled \union {Target} /\ \A p \in filled : buf'[p] = buf[p]
      /\ Target < size => buf'[Target] = d
  BY <1>1, <1>2 DEF Write
<1>4. Grows
  BY <1>3 DEF Grows
<1>5. \A t \in placed : \A i \in 1..Len(t.members) :
        t.to + i - 1 \in filled' \ filled /\ t.to + i - 1 < size =>
          StoredAs(t.members[i], origin[t.from + i - 1], buf'[t.to + i - 1])
  <2>1. TAKE t \in placed
  <2>2. TAKE i \in 1..Len(t.members)
  <2>3. HAVE t.to + i - 1 \in filled' \ filled /\ t.to + i - 1 < size
  <2>4. t.to + i - 1 = Target
    BY <1>3, <2>3
  <2>5. t.members[i] = Member /\ t.from + i - 1 = Source
    BY <1>1, <2>4, TargetPlace
  <2>6. buf'[t.to + i - 1] = d
    BY <1>3, <2>3, <2>4
  <2>. QED  BY <2>5, <2>6
<1>6. CellsInv'
  BY <1>1, <1>4, <1>5, CellsKept
<1>7. /\ stack # <<>> /\ DOMAIN stack' = DOMAIN stack
      /\ \A k \in DOMAIN stack : /\ stack'[k].from = stack[k].from /\ stack'[k].to = stack[k].to
                                 /\ stack'[k].members = stack[k].members
  BY <1>1, MemberIsRead, TopIsCall, NextMemberShape
<1>8. PlacedInv'
  BY <1>1, <1>7, PlacedKept
<1>9. CallsInv'
  BY <1>1, <1>4, CallsOfWord
<1>10. OneType(origin, slots)' /\ TypedInv(slots)'
  BY <1>1, TypedKept DEF OneType, PointsTo
<1>. QED  BY <1>6, <1>8, <1>9, <1>10 DEF GraphInv

(* The program's memory holds no offsets.                                  *)
LEMMA MemoryIsRead ==
  ASSUME TypeOK, ~inPlace, NEW a, Readable(a)
  PROVE  origin[a].tag # "off"
BY ReadIsCell DEF MemoryCells

(* GraphInv, action by action.                                             *)
LEMMA ValueGraph ==
  ASSUME RoomKept, ~inPlace, NEW slots, GraphInv(slots), StoreValue
  PROVE  GraphInv(slots)'
<1>1. /\ TypeOK /\ Running /\ Write(Target, Value) /\ stack' = NextMember
      /\ Member.kind = "data" \/ Value = Zero
      /\ UNCHANGED <<inPlace, origin, size, end, written, placed>>
  BY DEF RoomKept, StoreValue, contextVars
<1>2. Value = origin[Source] /\ Value \in Cells
  BY <1>1, MemberIsRead
<1>4. Value.tag # "off"
  BY <1>1, <1>2, MemoryIsRead DEF Running
<1>3. StoredAs(Member, origin[Source], Value)
  BY <1>1, <1>2, <1>4 DEF StoredAs
<1>. QED  BY <1>1, <1>2, <1>3, WordGraph

LEMMA OffsetGraph ==
  ASSUME RoomKept, NEW slots, GraphInv(slots), StoreOffset
  PROVE  GraphInv(slots)'
<1>1. /\ TypeOK /\ Running /\ Write(Target, Cell("off", Top.offset)) /\ stack' = NextMember
      /\ Top.offset # 0 /\ UNCHANGED <<inPlace, origin, size, end, written, placed>>
  BY DEF RoomKept, StoreOffset
<1>2. Len(stack) \in DOMAIN stack /\ Top = stack[Len(stack)] /\ Top.offset \in Nat
  BY <1>1, MemberIsRead, TopIsCall, CallFacts, Bounds
<1>3. HasPlace(Member, origin[Source], Top.offset)
  BY <1>1, <1>2 DEF GraphInv, CallsInv, CallInv, MemberAt, WordAt, Member, Source
<1>4. PICK d : d = Cell("off", Top.offset)
  OBVIOUS
<1>5. d \in Cells /\ d.tag = "off" /\ d.v = Top.offset
  BY <1>2, <1>4 DEF Cell, Cells
<1>6. Member.kind # "data" /\ origin[Source] # Zero
  BY <1>3 DEF HasPlace, Zero, Cell
<1>7. StoredAs(Member, origin[Source], d)
  BY <1>3, <1>5, <1>6 DEF StoredAs
<1>. QED  BY <1>1, <1>4, <1>5, <1>7, WordGraph

(* The current member's string or pointee has a place.                     *)
LEMMA FoundGraph ==
  ASSUME RoomKept, NEW slots, GraphInv(slots), Running, NEW o \in Positions,
         stack' = WithOffset(o), NEW m, NEW c, m = Member, c = origin[Source], HasPlace(m, c, o)',
         Grows, end' \in end..(LastCell + 1), filled' = filled \union end..(end' - 1),
         UNCHANGED <<inPlace, written, placed>>
  PROVE  GraphInv(slots)'
<1>1. /\ TypeOK /\ RoomInv /\ PlacedInv /\ CellsInv /\ CallsInv /\ TypedInv(slots)
      /\ OneType(origin, slots) /\ end \in Nat /\ LastCell \in Nat
  BY Bounds DEF RoomKept, GraphInv, TypeOK
<1>2. \A t \in placed : \A i \in 1..Len(t.members) : t.to + i - 1 \notin filled' \ filled
  <2>1. TAKE t \in placed
  <2>2. TAKE i \in 1..Len(t.members)
  <2>3. t.to \in Nat /\ Len(t.members) \in Nat /\ t.to + Len(t.members) <= end
    BY <1>1, PlaceFacts
  <2>4. t.to + i - 1 < end
    BY <1>1, <2>3
  <2>. QED  BY <1>1, <2>4
<1>3. CellsInv'
  BY <1>1, <1>2, CellsKept
<1>4. /\ stack # <<>> /\ DOMAIN stack = 1..Len(stack) /\ DOMAIN stack' = DOMAIN stack
      /\ Top = stack[Len(stack)] /\ Top \in Calls /\ Len(stack) \in DOMAIN stack
      /\ \A k \in DOMAIN stack : k # Len(stack) => stack'[k] = stack[k]
      /\ stack'[Len(stack)] = [Top EXCEPT !.offset = o]
  BY <1>1, MemberIsRead, TopIsCall, WithOffsetShape
<1>5. \A k \in DOMAIN stack : /\ stack'[k].from = stack[k].from /\ stack'[k].to = stack[k].to
                              /\ stack'[k].members = stack[k].members
  BY <1>4 DEF Calls
<1>6. PlacedInv'
  <2>1. end' \in Nat /\ end <= end'
    BY <1>1
  <2>. QED  BY <1>1, <1>4, <1>5, <2>1, PlacedKept
<1>7. CallsInv'
  BY <1>1, CallsOfOffset
<1>8. OneType(origin, slots)' /\ TypedInv(slots)'
  BY <1>1, TypedKept DEF OneType, PointsTo, Grows
<1>. QED  BY <1>3, <1>6, <1>7, <1>8 DEF GraphInv

LEMMA StringGraph ==
  ASSUME RoomKept, WordsInv, ~inPlace, NEW slots, GraphInv(slots), FindString
  PROVE  GraphInv(slots)'
<1>1. /\ TypeOK /\ RoomInv /\ PlacesInv /\ Running /\ Member.kind = "str"
      /\ Value.tag = "addr" /\ Readable(Value.v)
      /\ UNCHANGED <<inPlace, origin, size, written, placed>>
  BY DEF RoomKept, FindString, Refers
<1>2. PICK m : m = Member
  OBVIOUS
<1>3. PICK c : c = origin[Source]
  OBVIOUS
<1>4. Value = c /\ Read(Value.v) = origin[c.v]
  BY <1>1, <1>3, MemberIsRead, ReadIsCell
<1>5. /\ end \in Nat /\ LastCell \in Nat /\ end <= LastCell + 1 /\ size \in Nat
      /\ buf \in [Positions -> Cells] /\ filled \subseteq Positions
      /\ HeaderCells \in Nat /\ filled \subseteq HeaderCells..(end - 1)
  BY <1>1, Bounds DEF TypeOK, RoomInv, Reserved
<1>8. origin[c.v].tag # "off"
  BY <1>1, <1>4, MemoryIsRead
<1>6. CASE KnownString
  <2>1. PICK i \in SameStrings : stack' = WithOffset(strings[i].offset)
    BY <1>6 DEF KnownString
  <2>2. PICK o : o = strings[i].offset
    OBVIOUS
  <2>3. UNCHANGED <<end, strings, buf, filled>>
    BY <1>6 DEF KnownString
  <2>4. i \in DOMAIN strings /\ strings[i].text = origin[c.v]
    BY <1>4, <2>1 DEF SameStrings, SameString
  <2>5. o \in filled /\ o \in Positions /\ (o < size => buf[o] = origin[c.v])
    BY <1>1, <1>5, <2>2, <2>4 DEF PlacesInv, WordsInv
  <2>6. HasPlace(m, c, o)'
    BY <1>1, <1>2, <1>4, <1>8, <2>3, <2>5 DEF HasPlace, StringKept
  <2>7. Grows /\ end' \in end..(LastCell + 1) /\ filled' = filled \union end..(end' - 1)
    BY <1>1, <1>5, <2>3 DEF Grows
  <2>. QED  BY <1>1, <1>2, <1>3, <2>1, <2>2, <2>5, <2>6, <2>7, FoundGraph
<1>7. CASE AppendString
  <2>1. PICK o : o = end
    OBVIOUS
  <2>2. /\ end' = end + 1 /\ end + 1 <= LastCell + 1 /\ stack' = WithOffset(o)
        /\ Write(o, origin[c.v])
    BY <1>4, <1>7, <2>1 DEF AppendString, Room
  <2>3. o \in Positions /\ o \notin filled
    BY <1>5, <2>1, <2>2 DEF Positions
  <2>4. /\ filled' = filled \union {o} /\ \A p \in filled : buf'[p] = buf[p]
        /\ o < size => buf'[o] = origin[c.v]
    BY <1>5, <2>2, <2>3 DEF Write
  <2>5. end' \in end..(LastCell + 1) /\ end..(end' - 1) = {o}
    BY <1>5, <2>1, <2>2
  <2>6. Grows
    BY <1>1, <2>4 DEF Grows
  <2>7. HasPlace(m, c, o)'
    BY <1>1, <1>2, <1>4, <1>8, <2>4 DEF HasPlace, StringKept
  <2>. QED  BY <1>1, <1>2, <1>3, <2>2, <2>3, <2>4, <2>5, <2>6, <2>7, FoundGraph
<1>. QED  BY <1>6, <1>7 DEF FindString

(* FindWrittenPtr compares addresses only; the types say it is enough.     *)
LEMMA PointeeGraph ==
  ASSUME RoomKept, ~inPlace, NEW slots, GraphInv(slots), FindPointee
  PROVE  GraphInv(slots)'
<1>1. /\ TypeOK /\ Running /\ Refers("ptr") /\ Member.kind = "ptr" /\ Value.tag = "addr"
      /\ PlacedInv /\ OneType(origin, slots) /\ TypedInv(slots)
      /\ UNCHANGED <<inPlace, origin, size, buf, end, written, filled, placed>>
  BY DEF RoomKept, FindPointee, Refers, contextVars, GraphInv
<1>2. PICK m : m = Member
  OBVIOUS
<1>3. PICK c : c = origin[Source]
  OBVIOUS
<1>4. Value = c
  BY <1>1, <1>3, MemberIsRead
<1>5. PICK i \in WrittenAt : stack' = WithOffset(written[i].pos)
  BY DEF FindPointee
<1>6. PICK o : o = written[i].pos
  OBVIOUS
<1>7. i \in DOMAIN written /\ written[i].ptr = c.v
  BY <1>4, <1>5 DEF WrittenAt
<1>8. PICK t \in placed : t.kind = "ptr" /\ t.from = c.v /\ t.to = o
  BY <1>1, <1>6, <1>7 DEF PlacedInv
<1>9. t.members = Members[m.of] /\ o \in Positions /\ t = Place("ptr", c.v, o, t.members)
  BY <1>1, <1>2, <1>4, <1>8, PointeeHasType, PlaceFacts
<1>10. HasPlace(m, c, o)'
  BY <1>1, <1>2, <1>4, <1>8, <1>9 DEF HasPlace, ReferredMembers
<1>11. Grows /\ end' \in end..(LastCell + 1) /\ filled' = filled \union end..(end' - 1)
  BY <1>1, Bounds DEF Grows, TypeOK
<1>. QED  BY <1>1, <1>2, <1>3, <1>5, <1>6, <1>9, <1>10, <1>11, FoundGraph

(* What the current member refers to gets a place at the end.              *)
LEMMA PlaceGraph ==
  ASSUME RoomKept, ~inPlace, NEW slots, GraphInv(slots), NEW kind \in {"ptr", "array"},
         Refers(kind), NEW members, members = ReferredMembers(Member), Room(Len(members)),
         end' = end + Len(members), stack' = Append(stack, Call(Value.v, end, members)),
         placed' = placed \union {Place(kind, Value.v, end, members)},
         IF kind = "ptr" THEN written' = Append(written, [ptr |-> Value.v, pos |-> end])
                         ELSE written' = written,
         UNCHANGED <<inPlace, origin, size, buf, filled>>
  PROVE  GraphInv(slots)'
<1>1. /\ TypeOK /\ RoomInv /\ PlacedInv /\ CellsInv /\ CallsInv /\ TypedInv(slots)
      /\ OneType(origin, slots) /\ Running /\ Member.kind = kind /\ Value.tag = "addr"
      /\ Top.offset = 0 /\ Readable(Value.v)
  BY DEF RoomKept, GraphInv, Refers
<1>2. /\ members \in Seq(MemberDescs) /\ Len(members) \in Nat \ {0} /\ Value.v \in Nat
      /\ stack # <<>>
  BY <1>1, MemberIsRead, ReferredIsMembers, ReadIsCell
<1>3. /\ end \in Positions /\ end' \in Nat /\ end \in Nat
  BY <1>1, <1>2, Bounds DEF TypeOK, Room
<1>4. PICK t : t = Place(kind, Value.v, end, members)
  OBVIOUS
<1>5. /\ t \in Places /\ t.kind = kind /\ t.from = Value.v /\ t.to = end /\ t.members = members
  BY <1>2, <1>3, <1>4 DEF Place, Places
<1>6. PICK m : m = Member
  OBVIOUS
<1>7. PICK c : c = origin[Source]
  OBVIOUS
<1>8. PICK o : o = end
  OBVIOUS
<1>9. Value = c
  BY <1>1, <1>7, MemberIsRead
<1>10. HasPlace(m, c, o)'
  BY <1>1, <1>4, <1>6, <1>8, <1>9 DEF HasPlace
<1>11. Grows
  BY DEF Grows
<1>12. CellsInv'
  BY <1>1, <1>3, <1>4, <1>5, <1>11, CellsKept
<1>13. PlacedInv'
  BY <1>1, <1>2, <1>3, <1>4, <1>5, PlacedMore
<1>14. CallsInv'
  BY <1>1, <1>2, <1>3, <1>6, <1>7, <1>8, <1>10, <1>11, CallsOfCall
<1>15. OneType(origin, slots)' /\ TypedInv(slots)'
  BY <1>1, <1>4, TypedMore DEF OneType, PointsTo
<1>. QED  BY <1>12, <1>13, <1>14, <1>15 DEF GraphInv

LEMMA PointedGraph ==
  ASSUME RoomKept, ~inPlace, NEW slots, GraphInv(slots), StorePointee
  PROVE  GraphInv(slots)'
<1>1. PICK members : members = Members[Member.of]
  OBVIOUS
<1>2. Refers("ptr") /\ members = ReferredMembers(Member)
  BY <1>1 DEF StorePointee, Refers, ReferredMembers
<1>3. /\ Room(Len(members)) /\ end' = end + Len(members)
      /\ stack' = Append(stack, Call(Value.v, end, members))
      /\ placed' = placed \union {Place("ptr", Value.v, end, members)}
      /\ written' = Append(written, [ptr |-> Value.v, pos |-> end])
      /\ UNCHANGED <<inPlace, origin, size, buf, filled>>
  BY <1>1 DEF StorePointee
<1>. QED  BY <1>2, <1>3, PlaceGraph

LEMMA ArrayGraph ==
  ASSUME RoomKept, ~inPlace, NEW slots, GraphInv(slots), StoreArray
  PROVE  GraphInv(slots)'
<1>1. PICK members : members = Repeat(Members[Member.of], Member.count)
  OBVIOUS
<1>2. Refers("array") /\ members = ReferredMembers(Member)
  BY <1>1 DEF StoreArray, Refers, ReferredMembers
<1>3. /\ Room(Len(members)) /\ end' = end + Len(members)
      /\ stack' = Append(stack, Call(Value.v, end, members))
      /\ placed' = placed \union {Place("array", Value.v, end, members)}
      /\ UNCHANGED <<inPlace, origin, size, buf, written, filled>>
  BY <1>1 DEF StoreArray
<1>. QED  BY <1>2, <1>3, PlaceGraph

LEMMA RootGraph ==
  ASSUME RoomKept, ~inPlace, NEW slots, GraphInv(slots), StoreRoot
  PROVE  GraphInv(slots)'
<1>1. /\ TypeOK /\ RoomInv /\ OneType(origin, slots) /\ phase = "store" /\ stack = <<>>
      /\ UNCHANGED <<inPlace, origin, size, buf, filled>>
  BY DEF RoomKept, StoreRoot, GraphInv
<1>2. filled' = {}
  BY <1>1 DEF RoomInv
<1>3. PICK members : members = Members[Root]
  OBVIOUS
<1>4. PICK t : t = Place("ptr", Instance, HeaderCells, members)
  OBVIOUS
<1>5. members \in Seq(MemberDescs) /\ Len(members) \in Nat \ {0}
  BY <1>3, Bounds, MembersOfType
<1>6. /\ t \in Places /\ t.kind = "ptr" /\ t.from = Instance /\ t.to = HeaderCells
      /\ t.members = members
  BY <1>4, <1>5, Bounds DEF Place, Places
<1>7. PICK w : w = [ptr |-> Instance, pos |-> HeaderCells]
  OBVIOUS
<1>8. PICK call : call = Call(Instance, HeaderCells, members)
  OBVIOUS
<1>9. /\ stack' = <<call>> /\ written' = <<w>> /\ placed' = {t}
      /\ end' = HeaderCells + Len(members)
  BY <1>3, <1>4, <1>7, <1>8 DEF StoreRoot
<1>10. /\ DOMAIN stack' = {1} /\ stack'[1] = call /\ Len(stack') = 1
       /\ DOMAIN written' = {1} /\ written'[1] = w
  BY <1>9
<1>11. /\ call.from = t.from /\ call.to = t.to /\ call.members = t.members /\ call.offset = 0
       /\ w.ptr = t.from /\ w.pos = t.to
  BY <1>6, <1>7, <1>8 DEF Call
<1>12. TypedInv(slots)'
  BY <1>1, <1>3, <1>6, <1>9 DEF TypedInv, OneType
<1>13. CellsInv'
  BY <1>2 DEF CellsInv
<1>14. PlacedInv'
  <2>1. InstancePlace' = t
    BY <1>1, <1>3, <1>4 DEF InstancePlace
  <2>2. HeaderCells <= t.to /\ t.to + Len(t.members) <= end'
    BY <1>5, <1>6, <1>9, Bounds
  <2>. QED  BY <1>6, <1>9, <1>10, <1>11, <2>1, <2>2 DEF PlacedInv
<1>15. CallsInv'
  BY <1>10, <1>11 DEF CallsInv, CallInv
<1>16. OneType(origin, slots)'
  BY <1>1 DEF OneType, PointsTo
<1>. QED  BY <1>12, <1>13, <1>14, <1>15, <1>16 DEF GraphInv

LEMMA ReturnGraph ==
  ASSUME RoomKept, NEW slots, GraphInv(slots), Return
  PROVE  GraphInv(slots)'
<1>1. /\ TypeOK /\ RoomInv /\ PlacedInv /\ CellsInv /\ CallsInv /\ TypedInv(slots)
      /\ OneType(origin, slots) /\ end \in Nat
      /\ UNCHANGED <<inPlace, origin, size, buf, end, written, filled, placed>>
  BY Bounds DEF RoomKept, GraphInv, Return, contextVars, TypeOK
<1>2. Grows
  BY <1>1 DEF Grows
<1>3. CellsInv'
  BY <1>1, <1>2, CellsKept
<1>4. CallsInv'
  BY <1>1, <1>2, CallsOfReturn
<1>5. PICK n : n = Len(stack) - 1
  OBVIOUS
<1>6. /\ n \in DOMAIN stack /\ Len(stack) \in DOMAIN stack
      /\ stack' \in Seq(Calls) /\ Len(stack') = n
      /\ \A k \in 1..(n - 1) : stack'[k] = stack[k]
      /\ stack'[n] = [stack[n] EXCEPT !.offset = Top.to]
  BY <1>1, <1>5, ReturnShape
<1>7. /\ DOMAIN stack = 1..(n + 1) /\ DOMAIN stack' = 1..n /\ stack[n] \in Calls
      /\ stack # <<>>
  BY <1>1, <1>5, <1>6 DEF TypeOK
<1>8. \A k \in DOMAIN stack' : k \in DOMAIN stack /\ stack'[k].from = stack[k].from
                               /\ stack'[k].to = stack[k].to /\ stack'[k].members = stack[k].members
  <2>1. TAKE k \in DOMAIN stack'
  <2>2. n \in Nat /\ k \in DOMAIN stack
    BY <1>6, <1>7
  <2>3. CASE k = n
    BY <1>6, <1>7, <2>2, <2>3 DEF Calls
  <2>4. CASE k # n
    <3>1. k \in 1..(n - 1)
      BY <1>7, <2>2, <2>4
    <3>. QED  BY <1>6, <2>2, <3>1
  <2>. QED  BY <2>3, <2>4
<1>9. PlacedInv'
  BY <1>1, <1>7, <1>8, PlacedKept
<1>10. OneType(origin, slots)' /\ TypedInv(slots)'
  BY <1>1, TypedKept DEF OneType, PointsTo
<1>. QED  BY <1>3, <1>4, <1>9, <1>10 DEF GraphInv

(* A store that is refused, is done or starts has no calls.                *)
LEMMA NoCallsGraph ==
  ASSUME RoomKept, NEW slots, GraphInv(slots), RefuseBuffer \/ StoreDone \/ StoreWithNeededSize
  PROVE  GraphInv(slots)'
<1>1. /\ TypeOK /\ RoomInv /\ PlacedInv /\ CellsInv /\ TypedInv(slots)
      /\ OneType(origin, slots) /\ end \in Nat
      /\ stack' = <<>> /\ inPlace' = inPlace /\ origin' = origin
  BY Bounds DEF RoomKept, GraphInv, RefuseBuffer, StoreDone, StoreWithNeededSize, NewContext, TypeOK
<1>2. DOMAIN stack' = {} /\ OneType(origin, slots)'
  BY <1>1 DEF OneType, PointsTo
<1>3. CallsInv'
  BY <1>2 DEF CallsInv
<1>4. CASE RefuseBuffer \/ StoreDone
  <2>1. UNCHANGED <<size, buf, end, written, filled, placed>>
    BY <1>4 DEF RefuseBuffer, StoreDone, contextVars
  <2>2. Grows
    BY <1>1, <2>1 DEF Grows
  <2>3. CellsInv'
    BY <1>1, <2>1, <2>2, CellsKept
  <2>4. filled = {} \/ filled # {}
    OBVIOUS
  <2>5. PlacedInv'
    BY <1>1, <1>2, <2>1, <2>4, PlacedKept
  <2>. QED  BY <1>1, <1>2, <1>3, <2>1, <2>3, <2>5, TypedKept DEF GraphInv
<1>5. CASE StoreWithNeededSize
  <2>1. placed' = {} /\ filled' = {} /\ DOMAIN written' = {}
    BY <1>5 DEF StoreWithNeededSize, NewContext
  <2>2. CellsInv' /\ TypedInv(slots)'
    BY <2>1 DEF CellsInv, TypedInv
  <2>3. PlacedInv'
    BY <1>1, <1>2, <2>1 DEF PlacedInv
  <2>. QED  BY <1>2, <1>3, <2>2, <2>3 DEF GraphInv
<1>. QED  BY <1>4, <1>5

LEMMA StutterGraph ==
  ASSUME NEW slots, GraphInv(slots), UNCHANGED vars
  PROVE  GraphInv(slots)'
BY DEF GraphInv, OneType, PointsTo, TypedInv, CellsInv, StoredAs, HasPlace, StringKept, PlacedInv, InstancePlace,
   CallsInv, CallInv, MemberAt, WordAt, vars, contextVars

-----------------------------------------------------------------------------
(* The graph of every reachable state.                                     *)

GraphKept == ~inPlace => \E slots : GraphInv(slots)

LEMMA InitGraph ==
  ASSUME OneTypePerAddress, Init
  PROVE  GraphKept
<1>1. /\ origin \in Memories /\ placed = {} /\ filled = {} /\ stack = <<>>
      /\ DOMAIN stack = {} /\ DOMAIN written = {}
  BY DEF Init
<1>2. PICK slots : OneType(origin, slots)
  BY <1>1 DEF OneTypePerAddress
<1>3. TypedInv(slots) /\ CellsInv /\ CallsInv /\ PlacedInv
  BY <1>1 DEF TypedInv, CellsInv, CallsInv, PlacedInv
<1>. QED  BY <1>2, <1>3 DEF GraphKept, GraphInv

(* GraphInv is inductive, next to RoomKept and WordsInv.                   *)
LEMMA NextGraph ==
  ASSUME RoomKept, MemoryWords, GraphKept, [Next]_vars
  PROVE  GraphKept'
<1> SUFFICES ASSUME ~inPlace' PROVE \E slots : GraphInv(slots)'
  BY DEF GraphKept
<1>1. ~StoreInPlace
  BY DEF StoreInPlace
<1>2. inPlace' = inPlace
  BY <1>1 DEF Next, StoreStep, RefuseBuffer, StoreRoot, StoreValue, FindString, FindPointee,
     StorePointee, StoreArray, StoreOffset, Return, StoreDone, StoreWithNeededSize, vars
<1>3. ~inPlace /\ WordsInv
  BY <1>2 DEF MemoryWords
<1>4. PICK slots : GraphInv(slots)
  BY <1>3 DEF GraphKept
<1>5. CASE UNCHANGED vars
  BY <1>4, <1>5, StutterGraph
<1>6. CASE RefuseBuffer \/ StoreDone \/ StoreWithNeededSize
  BY <1>4, <1>6, NoCallsGraph
<1>7. CASE StoreRoot \/ StoreValue \/ StoreOffset
  BY <1>3, <1>4, <1>7, RootGraph, ValueGraph, OffsetGraph
<1>8. CASE FindString \/ FindPointee
  BY <1>3, <1>4, <1>8, StringGraph, PointeeGraph
<1>9. CASE StorePointee \/ StoreArray \/ Return
  BY <1>3, <1>4, <1>9, PointedGraph, ArrayGraph, ReturnGraph
<1>. QED  BY <1>1, <1>5, <1>6, <1>7, <1>8, <1>9 DEF Next, StoreStep

-----------------------------------------------------------------------------
(* A stored instance is the instance.                                      *)

(* Every word of a stored struct or array is in the blob.                  *)
LEMMA WordsWereStored ==
  ASSUME RoomKept, NEW slots, GraphInv(slots), Written
  PROVE  /\ filled = Reserved /\ \A p \in filled : p < size /\ p \in Positions
         /\ \A t \in placed : \A i \in 1..Len(t.members) :
              /\ t.to + i - 1 \in filled
              /\ StoredAs(t.members[i], origin[t.from + i - 1], buf[t.to + i - 1])
<1>1. /\ TypeOK /\ filled = Reserved /\ end <= size /\ PlacedInv /\ CellsInv
      /\ end \in Nat /\ size \in Nat /\ HeaderCells \in Nat
  <2>1. TypeOK /\ RoomInv /\ PlacedInv /\ CellsInv
    BY DEF RoomKept, GraphInv
  <2>2. filled = Reserved /\ end <= size
    BY <2>1 DEF RoomInv, Written
  <2>3. end \in Nat /\ size \in Nat /\ HeaderCells \in Nat
    BY <2>1, Bounds DEF TypeOK
  <2>. QED  BY <2>1, <2>2, <2>3
<1>2. \A p \in filled : p < size /\ p \in Positions
  <2>1. \A p \in filled : p < size
    BY <1>1 DEF Reserved
  <2>. QED  BY <1>1, <2>1 DEF TypeOK
<1>3. ASSUME NEW t \in placed, NEW i \in 1..Len(t.members)
      PROVE  /\ t.to + i - 1 \in filled
             /\ StoredAs(t.members[i], origin[t.from + i - 1], buf[t.to + i - 1])
  <2>2. /\ t.to \in Nat /\ Len(t.members) \in Nat /\ HeaderCells <= t.to
        /\ t.to + Len(t.members) <= end
    BY <1>1, PlaceFacts
  <2>3. t.to + i - 1 \in filled
    BY <1>1, <2>2 DEF Reserved
  <2>. QED  BY <1>1, <1>2, <2>3 DEF CellsInv
<1>. QED  BY <1>1, <1>2, <1>3

(* What the walk of the instance and its blob comes to was placed.         *)
LEMMA ReferredWasPlaced ==
  ASSUME RoomKept, NEW slots, GraphInv(slots), Written, NEW t \in placed
  PROVE  /\ Referred(t) \subseteq placed
         /\ \A i \in 1..Len(t.members) :
              SameValue(t.members[i], origin[t.from + i - 1], buf[t.to + i - 1])
<1>2. \A p \in filled : p < size
  BY WordsWereStored
<1>3. \A i \in 1..Len(t.members) :
        StoredAs(t.members[i], origin[t.from + i - 1], buf[t.to + i - 1])
  BY WordsWereStored
<1>4. \A i \in 1..Len(t.members) :
        SameValue(t.members[i], origin[t.from + i - 1], buf[t.to + i - 1])
  BY <1>2, <1>3 DEF SameValue, StoredAs, HasPlace, StringKept
<1>5. Referred(t) \subseteq placed
  <2>1. ASSUME NEW i \in 1..Len(t.members), t.members[i].kind \in {"ptr", "array"},
               origin[t.from + i - 1].tag = "addr"
        PROVE  Place(t.members[i].kind, origin[t.from + i - 1].v, buf[t.to + i - 1].v,
                     ReferredMembers(t.members[i])) \in placed
    BY <1>3, <2>1 DEF StoredAs, HasPlace, Zero, Cell
  <2>. QED  BY <2>1 DEF Referred
<1>. QED  BY <1>4, <1>5

(* The whole walk is where its steps stay: by induction over the steps,    *)
(* which are given as the iteration that the recursive definition of       *)
(* PairsWithin chooses.                                                    *)
LEMMA PairsAreIn ==
  ASSUME NEW Q, InstancePlace \in Q, \A t \in Q : Referred(t) \subseteq Q
  PROVE  Pairs \subseteq Q
<1>1. PICK S : S = SUBSET Q
  OBVIOUS
<1>2. PICK b : b = {InstancePlace}
  OBVIOUS
<1>3. b \in S
  BY <1>1, <1>2
<1>4. \A pairs \in S : WithReferred(pairs) \in S
  BY <1>1 DEF WithReferred
<1>5. PICK F : F = [pairs \in S |-> WithReferred(pairs)]
  OBVIOUS
<1>6. F \in [S -> S] /\ \A pairs \in S : F[pairs] = WithReferred(pairs)
  BY <1>4, <1>5
<1>7. PICK g \in [Nat -> S] : IsIteration(g, b, F)
  BY <1>3, <1>6, IterationExists
<1>8. g = [n \in Nat |-> IF n = 0 THEN {InstancePlace} ELSE WithReferred(g[n - 1])]
  <2>1. \A n \in Nat : g[n] = IF n = 0 THEN {InstancePlace} ELSE WithReferred(g[n - 1])
    <3>1. TAKE n \in Nat
    <3>2. g[n] = IF n = 0 THEN b ELSE F[g[n - 1]]
      BY <1>7 DEF IsIteration
    <3>3. n # 0 => g[n - 1] \in S
      BY <1>7
    <3>. QED  BY <1>2, <1>6, <3>2, <3>3
  <2>2. g = [n \in Nat |-> g[n]]
    BY <1>7
  <2>. QED  BY <2>1, <2>2
<1>9. PairsWithin = [n \in Nat |-> IF n = 0 THEN {InstancePlace} ELSE WithReferred(PairsWithin[n - 1])]
  <2>1. PairsWithin = CHOOSE f : f = [n \in Nat |-> IF n = 0 THEN {InstancePlace} ELSE WithReferred(f[n - 1])]
    BY DEF PairsWithin
  <2>. QED  BY <1>8, <2>1, Zenon
<1>10. Nat \subseteq {n \in Nat : PairsWithin[n] \in S}
  <2> DEFINE T == {n \in Nat : PairsWithin[n] \in S}
  <2>1. 0 \in T
    BY <1>2, <1>3, <1>9
  <2>2. ASSUME NEW n \in Nat, n \in T
        PROVE  n + 1 \in T
    <3>1. n + 1 \in Nat /\ n + 1 # 0 /\ (n + 1) - 1 = n
      BY <2>2
    <3>2. PairsWithin[n + 1] =
            IF n + 1 = 0 THEN {InstancePlace} ELSE WithReferred(PairsWithin[(n + 1) - 1])
      BY <1>9, <3>1
    <3>3. PairsWithin[n + 1] = WithReferred(PairsWithin[n])
      BY <3>1, <3>2
    <3>. QED  BY <1>4, <2>2, <3>3
  <2>3. \A n \in Nat : n \in T => n + 1 \in T
    BY <2>2
  <2> HIDE DEF T
  <2>4. Nat \subseteq T
    BY <2>1, <2>3, SetInduction
  <2>. QED  BY <2>4 DEF T
<1>. QED  BY <1>1, <1>10, Bounds DEF Pairs

LEMMA PairsWerePlaced ==
  ASSUME RoomKept, NEW slots, GraphInv(slots), Written
  PROVE  Pairs \subseteq placed
<1>1. InstancePlace \in placed
  BY DEF GraphInv, PlacedInv, Written
<1>2. \A t \in placed : Referred(t) \subseteq placed
  BY ReferredWasPlaced
<1>. QED  BY <1>1, <1>2, PairsAreIn

(* If every address is taken for one type only, a store from the program's *)
(* memory is the instance: the blob has its values, strings and elements,  *)
(* and two pointers of it lead to the same struct exactly when they did in *)
(* memory, for all types and graphs of structs, shared ones and cycles.    *)
THEOREM InstancesKept ==
  ASSUME OneTypePerAddress
  PROVE  Spec => [](~inPlace => InstanceKept)
<1>1. Init => GraphKept
  BY InitGraph
<1>2. RoomKept /\ MemoryWords /\ GraphKept /\ [Next]_vars => GraphKept'
  BY NextGraph
<1>3. RoomKept /\ GraphKept => (~inPlace => InstanceKept)
  <2> SUFFICES ASSUME RoomKept, NEW slots, GraphInv(slots), Written
               PROVE  /\ \A t \in Pairs : \A i \in 1..Len(t.members) :
                           SameValue(t.members[i], origin[t.from + i - 1], buf[t.to + i - 1])
                      /\ \A t, u \in {t \in Pairs : t.kind = "ptr"} : t.from = u.from <=> t.to = u.to
    BY DEF GraphKept, InstanceKept
  <2>1. Pairs \subseteq placed
    BY PairsWerePlaced
  <2>2. \A t \in Pairs : \A i \in 1..Len(t.members) :
          SameValue(t.members[i], origin[t.from + i - 1], buf[t.to + i - 1])
    BY <2>1, ReferredWasPlaced
  <2>3. ASSUME NEW t \in placed, NEW u \in placed, t.kind = "ptr", u.kind = "ptr"
        PROVE  t.from = u.from <=> t.to = u.to
    <3>1. PICK i \in DOMAIN written : written[i].ptr = t.from /\ written[i].pos = t.to
      BY <2>3 DEF GraphInv, PlacedInv
    <3>2. PICK j \in DOMAIN written : written[j].ptr = u.from /\ written[j].pos = u.to
      BY <2>3 DEF GraphInv, PlacedInv
    <3>3. written[i].pos = written[j].pos \/ written[i].ptr = written[j].ptr => i = j
      BY DEF RoomKept, PlacesInv
    <3>. QED  BY <3>1, <3>2, <3>3
  <2>. QED  BY <2>1, <2>2, <2>3
<1>4. MemoryWords <=> (~inPlace => WordsInv)
  BY DEF MemoryWords
<1>. QED  BY <1>1, <1>2, <1>3, <1>4, RoomIsKept, WordsAreKept, PTL DEF Spec

-----------------------------------------------------------------------------
(***************************************************************************)
(* The size that dl_instance_calc_size returns is the size that            *)
(* dl_instance_store takes.  A store goes from memory alone: what its      *)
(* calls are, what it remembers and where the blob ends does not depend on *)
(* the buffer, nor on its size, so two stores of an instance run alike.    *)
(***************************************************************************)

(* What a store has of its calls and remembers.                            *)
Configs ==
  [stack : Seq(Calls), end : Nat,
   written : Seq([ptr : Nat, pos : Positions]),
   strings : Seq([str : Nat, text : Cells, offset : Positions])]
Config == [stack |-> stack, end |-> end, written |-> written, strings |-> strings]

NewConfig == [stack |-> <<>>, end |-> HeaderCells, written |-> <<>>, strings |-> <<>>]
RootConfig ==
  [stack |-> <<Call(Instance, HeaderCells, Members[Root])>>,
   end |-> HeaderCells + Len(Members[Root]),
   written |-> <<[ptr |-> Instance, pos |-> HeaderCells]>>, strings |-> <<>>]

(* The last call is done.                                                  *)
Ended(c) == Len(c.stack) = 1 /\ c.stack[1].at > Len(c.stack[1].members)

(***************************************************************************)
(* The step of a store from the memory m, case by case: top is the call at *)
(* the top of c, value the word that it reads.                             *)
(***************************************************************************)
TopOf(c) == c.stack[Len(c.stack)]
MemberOf(c) == TopOf(c).members[TopOf(c).at]
WordOf(m, c) == m[TopOf(c).from + TopOf(c).at - 1]
LeastOf(S) == CHOOSE i \in S : \A j \in S : i <= j

Returned(c) == [Front(c.stack) EXCEPT ![Len(c.stack) - 1].offset = TopOf(c).to]
Stored(c) ==
  [c.stack EXCEPT ![Len(c.stack)] =
     [Call(TopOf(c).from, TopOf(c).to, TopOf(c).members) EXCEPT !.at = TopOf(c).at + 1]]
Given(c, o) == [c.stack EXCEPT ![Len(c.stack)].offset = o]
Called(c, a, members) == Append(c.stack, Call(a, c.end, members))

SameIn(m, c, a) == {i \in DOMAIN c.strings : c.strings[i].text = m[a] /\ m[c.strings[i].str] = m[a]}
WrittenIn(c, a) == {i \in DOMAIN c.written : c.written[i].ptr = a}

WithStack(c, s) == [stack |-> s, end |-> c.end, written |-> c.written, strings |-> c.strings]
StringOf(m, c, a) ==
  IF SameIn(m, c, a) # {} THEN WithStack(c, Given(c, c.strings[LeastOf(SameIn(m, c, a))].offset))
  ELSE [stack |-> Given(c, c.end), end |-> c.end + 1, written |-> c.written,
        strings |-> Append(c.strings, [str |-> a, text |-> m[a], offset |-> c.end])]
PointeeOf(c, a, members) ==
  IF WrittenIn(c, a) # {} THEN WithStack(c, Given(c, c.written[LeastOf(WrittenIn(c, a))].pos))
  ELSE [stack |-> Called(c, a, members), end |-> c.end + Len(members),
        written |-> Append(c.written, [ptr |-> a, pos |-> c.end]), strings |-> c.strings]
ArrayOf(c, a, members) ==
  [stack |-> Called(c, a, members), end |-> c.end + Len(members),
   written |-> c.written, strings |-> c.strings]

MemberStep(m, c) ==
  LET value == WordOf(m, c)
      member == MemberOf(c)
  IN IF member.kind = "data" \/ TopOf(c).offset # 0 \/ value = Zero THEN WithStack(c, Stored(c))
     ELSE IF member.kind = "str" THEN StringOf(m, c, value.v)
     ELSE IF member.kind = "ptr" THEN PointeeOf(c, value.v, Members[member.of])
     ELSE ArrayOf(c, value.v, Repeat(Members[member.of], member.count))
StepOf(m, c) ==
  IF c.stack = <<>> THEN RootConfig
  ELSE IF TopOf(c).at <= Len(TopOf(c).members) THEN MemberStep(m, c)
  ELSE IF Len(c.stack) = 1 THEN c
  ELSE WithStack(c, Returned(c))

StepsOf(m) == [c \in Configs |-> IF StepOf(m, c) \in Configs THEN StepOf(m, c) ELSE c]
Run(m) == CHOOSE g \in [Nat -> Configs] : IsIteration(g, NewConfig, StepsOf(m))

-----------------------------------------------------------------------------
(* There is one end to a run.                                              *)

(* The run of a memory is an iteration of its steps.                       *)
LEMMA RunIsIteration ==
  ASSUME NEW m
  PROVE  /\ Run(m) \in [Nat -> Configs]
         /\ Run(m)[0] = NewConfig
         /\ \A n \in Nat : Run(m)[n + 1] = StepsOf(m)[Run(m)[n]]
<1>1. NewConfig \in Configs
  BY Bounds DEF NewConfig, Configs
<1>2. StepsOf(m) \in [Configs -> Configs]
  BY DEF StepsOf
<1>3. \E g \in [Nat -> Configs] : IsIteration(g, NewConfig, StepsOf(m))
  BY <1>1, <1>2, IterationExists
<1>4. Run(m) \in [Nat -> Configs] /\ IsIteration(Run(m), NewConfig, StepsOf(m))
  BY <1>3, Zenon DEF Run
<1>5. PICK g \in [Nat -> Configs] : g = Run(m) /\ IsIteration(g, NewConfig, StepsOf(m))
  BY <1>4
<1>6. PICK F : F = StepsOf(m)
  OBVIOUS
<1>7. g = [n \in Nat |-> IF n = 0 THEN NewConfig ELSE F[g[n - 1]]]
  BY <1>5, <1>6 DEF IsIteration
<1>8. g[0] = NewConfig /\ \A n \in Nat : g[n + 1] = F[g[n]]
  BY <1>7
<1>. QED  BY <1>5, <1>6, <1>8

(* When the last call is done nothing follows.                             *)
LEMMA EndIsKept ==
  ASSUME NEW m, NEW c \in Configs, Ended(c)
  PROVE  StepsOf(m)[c] = c
<1>1. Len(c.stack) = 1 /\ c.stack \in Seq(Calls) /\ c.stack # <<>>
  BY DEF Ended, Configs
<1>2. TopOf(c) = c.stack[1] /\ c.stack[1] \in Calls
  BY <1>1 DEF TopOf
<1>3. ~(TopOf(c).at <= Len(TopOf(c).members))
  BY <1>2 DEF Ended, Calls
<1>4. StepOf(m, c) = c
  BY <1>1, <1>3 DEF StepOf
<1>. QED  BY <1>4 DEF StepsOf

(* So a run ends in one config.                                            *)
LEMMA OneEnd ==
  ASSUME NEW m, NEW i \in Nat, NEW j \in Nat, Ended(Run(m)[i]), Ended(Run(m)[j])
  PROVE  Run(m)[i] = Run(m)[j]
<1>1. ASSUME NEW k \in Nat, Ended(Run(m)[k])
      PROVE  \A l \in Nat : Run(m)[k + l] = Run(m)[k]
  <2> DEFINE T == {l \in Nat : Run(m)[k + l] = Run(m)[k]}
  <2>1. 0 \in T
    OBVIOUS
  <2>2. ASSUME NEW l \in Nat, l \in T
        PROVE  l + 1 \in T
    <3>1. k + l \in Nat /\ k + (l + 1) = (k + l) + 1
      OBVIOUS
    <3>2. Run(m)[(k + l) + 1] = StepsOf(m)[Run(m)[k + l]] /\ Run(m)[k] \in Configs
      BY <3>1, RunIsIteration
    <3>3. StepsOf(m)[Run(m)[k]] = Run(m)[k]
      BY <1>1, <3>2, EndIsKept
    <3>. QED  BY <2>2, <3>1, <3>2, <3>3
  <2>3. \A l \in Nat : l \in T => l + 1 \in T
    BY <2>2
  <2> HIDE DEF T
  <2>4. Nat \subseteq T
    BY <2>1, <2>3, SetInduction
  <2>. QED  BY <2>4 DEF T
<1>2. CASE i <= j
  <2>1. j - i \in Nat /\ i + (j - i) = j
    BY <1>2
  <2>. QED  BY <1>1, <2>1
<1>3. CASE j <= i
  <2>1. i - j \in Nat /\ j + (i - j) = i
    BY <1>3
  <2>. QED  BY <1>1, <2>1
<1>. QED  BY <1>2, <1>3

-----------------------------------------------------------------------------
(* Every step of a store from the program's memory is the step of its run. *)

(* Of the cells of a config only these are of the state.                   *)
LEMMA ConfigFields ==
  /\ Config.stack = stack /\ Config.end = end
  /\ Config.written = written /\ Config.strings = strings
  /\ TypeOK => Config \in Configs
  /\ TopOf(Config) = Top /\ MemberOf(Config) = Member
<1>1. /\ Config.stack = stack /\ Config.end = end
      /\ Config.written = written /\ Config.strings = strings
  BY DEF Config
<1>2. TypeOK => Config \in Configs
  BY Bounds DEF Config, Configs, TypeOK
<1>. QED  BY <1>1, <1>2 DEF TopOf, MemberOf, Top, Member

(* A set of numbers that is not empty has one least element.               *)
LEMMA LeastIs ==
  ASSUME NEW S \in SUBSET Nat, NEW i \in S, \A j \in S : i <= j
  PROVE  LeastOf(S) = i
<1>1. \E k \in S : \A j \in S : k <= j
  OBVIOUS
<1>2. LeastOf(S) \in S /\ \A j \in S : LeastOf(S) <= j
  BY <1>1, Zenon DEF LeastOf
<1>3. PICK l \in Nat : l = LeastOf(S) /\ l <= i /\ i <= l /\ i \in Nat
  BY <1>2
<1>. QED  BY <1>3

(* The word that the run comes to is the one that the store reads.         *)
LEMMA RunningStep ==
  ASSUME TypeOK, Running, ~inPlace
  PROVE  /\ StepOf(origin, Config) = MemberStep(origin, Config)
         /\ WordOf(origin, Config) = Value
         /\ Top.offset = 0 \/ Top.offset # 0
<1>1. stack # <<>> /\ Top.at <= Len(Top.members)
  BY DEF Running
<1>2. Value = origin[Source]
  BY DEF Value, Read
<1>. QED  BY <1>1, <1>2, ConfigFields DEF StepOf, WordOf, Source

(* A word is written: the run goes to the next member.                     *)
LEMMA WordStep ==
  ASSUME TypeOK, ~inPlace, StoreValue \/ StoreOffset
  PROVE  StepOf(origin, Config) = Config'
<1>1. /\ Running /\ stack' = NextMember /\ end' = end /\ written' = written /\ strings' = strings
      /\ Member.kind = "data" \/ Top.offset # 0 \/ Value = Zero
  BY DEF StoreValue, StoreOffset, contextVars
<1>2. Stored(Config) = NextMember
  BY ConfigFields DEF Stored, NextMember
<1>3. StepOf(origin, Config) = WithStack(Config, Stored(Config))
  BY <1>1, RunningStep, ConfigFields DEF MemberStep
<1>. QED  BY <1>1, <1>2, <1>3, ConfigFields DEF WithStack, Config

(* A reference: the run looks its string or pointee up, or calls.          *)
LEMMA RefersStep ==
  ASSUME TypeOK, ~inPlace, NEW kind \in {"str", "ptr", "array"}, Refers(kind)
  PROVE  /\ Running /\ Member.kind = kind /\ Value.v \in Nat /\ Value.v \in DOMAIN origin
         /\ StepOf(origin, Config) =
              IF kind = "str" THEN StringOf(origin, Config, Value.v)
              ELSE IF kind = "ptr" THEN PointeeOf(Config, Value.v, Members[Member.of])
              ELSE ArrayOf(Config, Value.v, Repeat(Members[Member.of], Member.count))
         /\ \A o : Given(Config, o) = WithOffset(o)
<1>1. /\ Running /\ Member.kind = kind /\ Top.offset = 0 /\ Value.tag = "addr" /\ Readable(Value.v)
  BY DEF Refers
<1>2. Value # Zero /\ Member.kind # "data"
  BY <1>1 DEF Zero, Cell
<1>3. Value.v \in Nat /\ Value.v \in DOMAIN origin
  BY <1>1, ReadIsCell
<1>4. \A o : Given(Config, o) = WithOffset(o)
  BY ConfigFields DEF Given, WithOffset
<1>. QED  BY <1>1, <1>2, <1>3, <1>4, RunningStep, ConfigFields DEF MemberStep

(* GetStringOffset goes by what memory and strings hold.                   *)
LEMMA StringStep ==
  ASSUME TypeOK, ~inPlace, FindString
  PROVE  StepOf(origin, Config) = Config'
<1>1. Refers("str") /\ written' = written /\ IF SameStrings # {} THEN KnownString ELSE AppendString
  BY DEF FindString
<1>2. /\ StepOf(origin, Config) = StringOf(origin, Config, Value.v)
      /\ \A o : Given(Config, o) = WithOffset(o)
  BY <1>1, RefersStep
<1>3. SameIn(origin, Config, Value.v) = SameStrings
  BY ConfigFields DEF SameIn, SameStrings, SameString, Read
<1>4. CASE SameStrings # {}
  <2>1. PICK i \in SameStrings : /\ \A j \in SameStrings : i <= j
                                 /\ stack' = WithOffset(strings[i].offset)
    BY <1>1, <1>4 DEF KnownString
  <2>2. SameStrings \in SUBSET Nat
    BY DEF SameStrings, TypeOK
  <2>3. LeastOf(SameStrings) = i
    BY <2>1, <2>2, LeastIs
  <2>4. end' = end /\ strings' = strings
    BY <1>1, <1>4 DEF KnownString
  <2>5. StringOf(origin, Config, Value.v) = WithStack(Config, WithOffset(strings[i].offset))
    BY <1>2, <1>3, <1>4, <2>3, ConfigFields DEF StringOf
  <2>. QED  BY <1>1, <1>2, <2>1, <2>4, <2>5, ConfigFields DEF WithStack, Config
<1>5. CASE SameStrings = {}
  <2>1. /\ end' = end + 1 /\ stack' = WithOffset(end)
        /\ strings' = Append(strings, [str |-> Value.v, text |-> origin[Value.v], offset |-> end])
    BY <1>1, <1>5 DEF AppendString, Read
  <2>. QED  BY <1>1, <1>2, <1>3, <1>5, <2>1, ConfigFields DEF StringOf, Config
<1>. QED  BY <1>4, <1>5

(* FindWrittenPtr goes by written_ptrs.                                    *)
LEMMA PointeeStep ==
  ASSUME TypeOK, ~inPlace, FindPointee \/ StorePointee
  PROVE  StepOf(origin, Config) = Config'
<1>1. Refers("ptr")
  BY DEF FindPointee, StorePointee
<1>2. /\ StepOf(origin, Config) = PointeeOf(Config, Value.v, Members[Member.of])
      /\ \A o : Given(Config, o) = WithOffset(o)
  BY <1>1, RefersStep
<1>3. WrittenIn(Config, Value.v) = WrittenAt
  BY ConfigFields DEF WrittenIn, WrittenAt
<1>4. CASE FindPointee
  <2>1. PICK i \in WrittenAt : /\ \A j \in WrittenAt : i <= j
                               /\ stack' = WithOffset(written[i].pos)
    BY <1>4 DEF FindPointee
  <2>2. WrittenAt \in SUBSET Nat
    BY DEF WrittenAt, TypeOK
  <2>3. LeastOf(WrittenAt) = i
    BY <2>1, <2>2, LeastIs
  <2>4. end' = end /\ strings' = strings /\ written' = written
    BY <1>4 DEF FindPointee, contextVars
  <2>5. PointeeOf(Config, Value.v, Members[Member.of]) = WithStack(Config, WithOffset(written[i].pos))
    BY <1>2, <1>3, <2>1, <2>3, ConfigFields DEF PointeeOf
  <2>. QED  BY <1>2, <2>1, <2>4, <2>5, ConfigFields DEF WithStack, Config
<1>5. CASE StorePointee
  <2> DEFINE members == Members[Member.of]
  <2>1. /\ WrittenAt = {} /\ end' = end + Len(members) /\ strings' = strings
        /\ written' = Append(written, [ptr |-> Value.v, pos |-> end])
        /\ stack' = Append(stack, Call(Value.v, end, members))
    BY <1>5 DEF StorePointee
  <2>. QED  BY <1>2, <1>3, <2>1, ConfigFields DEF PointeeOf, Called, Config
<1>. QED  BY <1>4, <1>5

(* An array is placed in any case.                                         *)
LEMMA ArrayStep ==
  ASSUME TypeOK, ~inPlace, StoreArray
  PROVE  StepOf(origin, Config) = Config'
<1> DEFINE members == Repeat(Members[Member.of], Member.count)
<1>1. /\ Refers("array") /\ end' = end + Len(members) /\ strings' = strings /\ written' = written
      /\ stack' = Append(stack, Call(Value.v, end, members))
  BY DEF StoreArray
<1>2. StepOf(origin, Config) = ArrayOf(Config, Value.v, members)
  BY <1>1, RefersStep
<1>. QED  BY <1>1, <1>2, ConfigFields DEF ArrayOf, Called, Config

LEMMA ReturnStep ==
  ASSUME TypeOK, ~inPlace, Return
  PROVE  StepOf(origin, Config) = Config'
<1>1. /\ stack # <<>> /\ Len(stack) > 1 /\ Top.at > Len(Top.members)
      /\ end' = end /\ written' = written /\ strings' = strings
  BY DEF Return, contextVars, TypeOK
<1>2. Len(stack) # 1 /\ ~(Top.at <= Len(Top.members))
  BY <1>1, TopIsCall DEF TypeOK
<1>3. stack' = Returned(Config)
  BY ConfigFields DEF Return, Returned
<1>. QED  BY <1>1, <1>2, <1>3, ConfigFields DEF StepOf, WithStack, Config

(* A store begins where its run does.                                      *)
LEMMA RootStep ==
  ASSUME RoomKept, ~inPlace, StoreRoot
  PROVE  Config = NewConfig /\ StepOf(origin, Config) = Config'
<1>1. stack = <<>> /\ end = HeaderCells /\ written = <<>> /\ strings = <<>>
  BY DEF StoreRoot, RoomKept, RoomInv
<1>2. /\ stack' = <<Call(Instance, HeaderCells, Members[Root])>>
      /\ end' = HeaderCells + Len(Members[Root]) /\ strings' = strings
      /\ written' = <<[ptr |-> Instance, pos |-> HeaderCells]>>
  BY DEF StoreRoot
<1>. QED  BY <1>1, <1>2 DEF StepOf, Config, NewConfig, RootConfig

-----------------------------------------------------------------------------
(* The sizes of two stores.                                                *)

(* A store of m ends with n as the size of its blob.                       *)
TakesSize(m, n) == \E k \in Nat : Ended(Run(m)[k]) /\ Run(m)[k].end = n

SizeInv ==
  /\ phase = "store" => \E k \in Nat : Run(origin)[k] = Config
  /\ phase = "stored" /\ Dummy => filled # {}
  /\ phase = "stored" /\ filled # {} => TakesSize(origin, end)
  /\ needed # 0 => /\ TakesSize(origin, needed)
                   /\ size = needed /\ needed > HeaderCells /\ phase # "too_small"
MemorySize == ~inPlace => SizeInv

(* There is one size for a memory.                                         *)
LEMMA SizeIsOne ==
  ASSUME NEW m, NEW n, NEW o, TakesSize(m, n), TakesSize(m, o)
  PROVE  n = o
BY OneEnd DEF TakesSize

(* A step of the store is one of its run.                                  *)
LEMMA StepKeepsRun ==
  ASSUME TypeOK, TypeOK', origin' = origin, StepOf(origin, Config) = Config',
         NEW k \in Nat, Run(origin)[k] = Config
  PROVE  \E l \in Nat : Run(origin)[l] = Config'
<1>1. Config \in Configs /\ Config' \in Configs
  BY Bounds DEF Config, Configs, TypeOK
<1>2. StepsOf(origin)[Config] = Config'
  BY <1>1 DEF StepsOf
<1>3. k + 1 \in Nat /\ Run(origin)[k + 1] = Config'
  BY <1>2, RunIsIteration
<1>. QED  BY <1>3

LEMMA StepSize ==
  ASSUME RoomKept, RoomKept', SizeInv, ~inPlace,
         StoreRoot \/ StoreValue \/ FindString \/ FindPointee \/ StorePointee
           \/ StoreArray \/ StoreOffset \/ Return
  PROVE  SizeInv'
<1>1. TypeOK /\ TypeOK'
  BY DEF RoomKept
<1>2. /\ phase = "store" /\ phase' = phase /\ needed' = needed /\ size' = size
      /\ origin' = origin
  BY DEF StoreRoot, StoreValue, FindString, FindPointee, StorePointee, StoreArray,
         StoreOffset, Return, Refers, Running, history
<1>3. StepOf(origin, Config) = Config'
  BY <1>1, RootStep, WordStep, StringStep, PointeeStep, ArrayStep, ReturnStep
<1>4. PICK k \in Nat : Run(origin)[k] = Config
  BY <1>2 DEF SizeInv
<1>5. \E l \in Nat : Run(origin)[l] = Config'
  BY <1>1, <1>2, <1>3, <1>4, StepKeepsRun
<1>. QED  BY <1>2, <1>5 DEF SizeInv

(* The store ends where its run does.                                      *)
LEMMA DoneSize ==
  ASSUME RoomKept, SizeInv, ~inPlace, StoreDone
  PROVE  SizeInv'
<1>1. /\ phase = "store" /\ Len(stack) = 1 /\ Top.at > Len(Top.members) /\ stack # <<>>
      /\ phase' = IF ~Dummy /\ end > size THEN "too_small" ELSE "stored"
      /\ UNCHANGED <<origin, size, end, filled, needed>>
  BY DEF StoreDone, contextVars, history
<1>2. TypeOK /\ Top = stack[1]
  BY <1>1 DEF RoomKept, Top
<1>3. PICK k \in Nat : Run(origin)[k] = Config
  BY <1>1 DEF SizeInv
<1>4. Ended(Config)
  BY <1>1, <1>2, ConfigFields DEF Ended
<1>5. TakesSize(origin, end)
  BY <1>3, <1>4, ConfigFields DEF TakesSize
<1>6. filled # {}
  <2>1. DOMAIN stack = {1}
    BY <1>1, <1>2, TopIsCall
  <2>2. Pending(1) = {}
    <3>1. Top.to \in Nat /\ Top.at \in Nat /\ Len(Top.members) \in Nat
      BY <1>2, <2>1, CallFacts, Bounds
    <3>. QED  BY <1>1, <1>2, <3>1 DEF Pending
  <2>3. stack[1].to \in Reserved /\ \A p \in Reserved : p \in filled \/ \E l \in DOMAIN stack : p \in Pending(l)
    BY <1>1, <2>1 DEF RoomKept, RoomInv
  <2>. QED  BY <2>1, <2>2, <2>3
<1>7. ASSUME needed # 0
      PROVE  phase' # "too_small"
  <2>1. needed = end /\ size = needed
    BY <1>5, <1>7, SizeIsOne DEF SizeInv
  <2>2. ~(end > size)
    BY <1>2, <2>1 DEF TypeOK
  <2>. QED  BY <1>1, <2>2
<1>. QED  BY <1>1, <1>5, <1>6, <1>7 DEF SizeInv

(* The second store begins the run anew, with the size of the first.       *)
LEMMA NeededSize ==
  ASSUME RoomKept, SizeInv, ~inPlace, StoreWithNeededSize
  PROVE  SizeInv'
<1>1. /\ phase = "stored" /\ Dummy /\ phase' = "store" /\ size' = end /\ needed' = end
      /\ origin' = origin /\ NewContext
  BY DEF StoreWithNeededSize
<1>2. Config' = NewConfig
  BY <1>1 DEF NewContext, Config, NewConfig
<1>3. \E k \in Nat : Run(origin)[k] = NewConfig
  BY RunIsIteration
<1>4. filled # {} /\ TakesSize(origin, end)
  BY <1>1 DEF SizeInv
<1>5. Reserved # {}
  BY <1>1, <1>4 DEF RoomKept, RoomInv
<1>6. end > HeaderCells
  BY <1>5, Bounds DEF Reserved, RoomKept, TypeOK
<1>. QED  BY <1>1, <1>2, <1>3, <1>4, <1>6 DEF SizeInv

LEMMA NextSize ==
  ASSUME RoomKept, RoomKept', MemorySize, [Next]_vars
  PROVE  MemorySize'
<1>. SUFFICES ASSUME ~inPlace'
              PROVE  SizeInv'
  BY DEF MemorySize
<1>1. ~StoreInPlace
  BY DEF StoreInPlace
<1>2. inPlace' = inPlace
  BY <1>1 DEF Next, StoreStep, RefuseBuffer, StoreRoot, StoreValue, FindString, FindPointee,
     StorePointee, StoreArray, StoreOffset, Return, StoreDone, StoreWithNeededSize, vars
<1>3. ~inPlace /\ SizeInv
  BY <1>2 DEF MemorySize
<1>4. CASE UNCHANGED vars
  BY <1>3, <1>4 DEF vars, contextVars, history, SizeInv, Config, Dummy
<1>5. CASE RefuseBuffer
  <2>1. /\ phase = "store" /\ ~Dummy /\ size <= HeaderSize /\ phase' = "too_small"
        /\ UNCHANGED <<origin, size, needed>>
    BY <1>5 DEF RefuseBuffer, history
  <2>2. HeaderSize \in Nat /\ HeaderSize <= HeaderCells
    BY StoreAssumption
  <2>3. needed = 0
    BY <1>3, <2>1, <2>2, Bounds DEF SizeInv, RoomKept, TypeOK
  <2>. QED  BY <2>1, <2>3 DEF SizeInv
<1>6. CASE StoreDone
  BY <1>3, <1>6, DoneSize
<1>7. CASE StoreWithNeededSize
  BY <1>3, <1>7, NeededSize
<1>8. CASE StoreStep /\ ~RefuseBuffer /\ ~StoreDone
  BY <1>3, <1>8, StepSize DEF StoreStep
<1>. QED  BY <1>1, <1>4, <1>5, <1>6, <1>7, <1>8 DEF Next

LEMMA InitSize == Init => MemorySize
<1> SUFFICES ASSUME Init
             PROVE  SizeInv
  BY DEF MemorySize
<1>1. needed = 0 /\ filled = {}
  BY DEF Init
<1>2. CASE TextBlobs = {}
  <2>1. phase = "store" /\ Config = NewConfig
    BY <1>2 DEF Init, Config, NewConfig
  <2>. QED  BY <1>1, <2>1, RunIsIteration DEF SizeInv
<1>3. CASE TextBlobs # {}
  <2>1. phase = "stored" /\ ~Dummy
    BY <1>3, StoreAssumption DEF Init, Dummy
  <2>. QED  BY <1>1, <2>1 DEF SizeInv
<1>. QED  BY <1>2, <1>3

(* What dl_instance_calc_size returns for an instance is the size its blob *)
(* has when dl_instance_store is called with a buffer of that size, which  *)
(* is not found too small, for all types and memories.                     *)
THEOREM SizesFit == Spec => [](~inPlace => NeededSizeFits)
<1>1. Init => MemorySize
  BY InitSize
<1>2. RoomKept /\ RoomKept' /\ MemorySize /\ [Next]_vars => MemorySize'
  BY NextSize
<1>3. MemorySize => (~inPlace => NeededSizeFits)
  BY SizeIsOne DEF MemorySize, SizeInv, NeededSizeFits
<1>. QED  BY <1>1, <1>2, <1>3, RoomIsKept, PTL DEF Spec

=============================================================================
