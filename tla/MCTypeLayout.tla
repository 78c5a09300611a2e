---------------------------- MODULE MCTypeLayout ----------------------------
(***************************************************************************)
(* Small worlds for TypeLayout.  Type or union T has up to three members   *)
(* out of a pool; it may hold a struct S and a union U, by value and as an *)
(* array, and S may point back to it.                                      *)
(***************************************************************************)
EXTENDS TypeLayout

CONSTANT
  Clash  \* "bitfields": an array between bitfields, "lengths": a name that
         \* begins another, "enums": a pointer to an enum, "none": none of these

NoName == <<>>
M(kind, of, atom, count, by) == [kind |-> kind, of |-> of, atom |-> atom, count |-> count, by |-> by]
Pod(kind) == M(kind, "none", "pod", 1, NoName)
Held(type) == M("named", type, "pod", 1, NoName)
Bit(n) == M("bits", "none", "bits", n, NoName)
Array == M("int32", "none", "array", 0, NoName)
ByName == M("int16", "none", "inline", 0, <<"a", "b">>)
ByWrongName == M("int16", "none", "inline", 0, <<"z">>)

Pool == {Pod("int8"), Pod("int64"), Pod("str"), Array, Bit(3), Bit(6), Bit(30), Held("S"),
         M("named", "S", "inline", 2, NoName), Held("U"), Held("E"), ByName}

BitsArrayBits(ms) ==
  \E i, j, k \in DOMAIN ms : i < j /\ j < k /\ ms[i].atom = "bits" /\ ms[j].atom = "array" /\ ms[k].atom = "bits"
FitsWord(ms) == FoldLeft(LAMBDA n, m : IF m.atom = "bits" THEN n + m.count ELSE n, 0, ms) <= 64
Lists == {ms \in [1..3 -> Pool] : FitsWord(ms) /\ (BitsArrayBits(ms) <=> Clash = "bitfields")}
Few == {<<Held("U"), Bit(3), M("named", "S", "inline", 2, NoName)>>, <<Pod("int8"), Held("S"), Pod("str")>>,
        <<M("ptr", "S", "inline", 2, NoName), Held("E"), ByName>>}
Refused == {<<Pod("int8"), Held("Gone"), Bit(3)>>, <<Held("S"), M("ptr", "Gone", "pod", 1, NoName)>>,
            <<Held("S"), ByWrongName>>}

D(union, align, ms) == [union |-> union, align |-> align, members |-> ms]
S1 == D(FALSE, 0, <<Pod("int8"), Pod("int16")>>)
S2 == D(FALSE, 0, <<Bit(3), M("ptr", "T", "pod", 1, NoName), Pod("int8")>>)
U == D(TRUE, 0, <<Pod("int8"), Held("S")>>)
Decls(t, s) == [T |-> t, S |-> s, U |-> U]

Libs == {<<<<"T", "U", "S">>>>, <<<<"S", "T", "U">>>>, <<<<"S", "U">>, <<"T">>>>}
E == [name |-> "E", storage |-> "int16"]
LengthNames == <<[name |-> <<"a", "b">>, value |-> 3], [name |-> <<"a", "b", "c">>, value |-> 5]>>
World(t, s, libs) ==
  [decls |-> Decls(t, s), libs |-> libs,
   enums |-> [i \in DOMAIN libs |-> IF i = 1 THEN {E} ELSE {}],
   aliases |-> [i \in DOMAIN libs |-> IF i > 1 THEN <<>> ELSE IF Clash = "lengths" THEN Reverse(LengthNames) ELSE LengthNames]]

MCWorlds ==
  CASE Clash = "none" ->
         {World(D(FALSE, 0, ms), S2, libs) : ms \in Lists, libs \in Libs}
         \union {World(D(union, align, ms), s, libs) :
                   union \in BOOLEAN, align \in {0, 16}, ms \in Few \union Refused, s \in {S1, S2}, libs \in Libs}
    [] Clash = "bitfields" -> {World(D(FALSE, 0, ms), S1, <<<<"S", "T", "U">>>>) : ms \in Lists}
    [] Clash = "enums" -> {World(D(FALSE, 0, <<pod, M("ptr", "E", "pod", 1, NoName)>>), S1, libs) :
                             pod \in Pool, libs \in Libs}
    [] OTHER -> {World(D(FALSE, 0, ms), S1, <<<<"S", "T", "U">>>>) : ms \in Few}
=============================================================================
