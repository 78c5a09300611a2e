----------------------------- MODULE MCTypeLib -----------------------------
(***************************************************************************)
(* Small libraries for TypeLib.  A default value stands for where it is in *)
(* the text; the numbers are below every index into a table.               *)
(***************************************************************************)
EXTENDS TypeLib, TLC

Meta(of, value, packed, stored) ==
  [of |-> of, value |-> value, packed |-> packed, stored |-> stored]
Member(name, of, default, comment, metas) ==
  [name |-> name, of |-> of, default |-> default, comment |-> comment, metas |-> metas]
EnumValue(name, value, aliases, comment, metas) ==
  [name |-> name, value |-> value, aliases |-> aliases, comment |-> comment, metas |-> metas]
Type(name, comment, metas, members) ==
  [kind |-> "type", name |-> name, comment |-> comment, metas |-> metas, parts |-> members]
Enum(name, comment, metas, values) ==
  [kind |-> "enum", name |-> name, comment |-> comment, metas |-> metas, parts |-> values]

(* An enum, a type for metadata and a type with a default value, each with *)
(* metadata; the metadata is stored as long as it is packed.               *)
Base ==
  <<Enum("Color", "", <<>>,
      <<EnumValue("red", 1, <<"rot">>, "warm", <<Meta("Tag", "base 1", 2, 2)>>),
        EnumValue("blue", 2, <<>>, "", <<>>)>>),
    Type("Tag", "a tag", <<>>, <<Member("text", "string", None, "", <<>>)>>),
    Type("Line", "", <<Meta("Tag", "base 2", 2, 2), Meta("Tag", "base 3", 2, 2)>>,
      <<Member("color", "Color", -100, "of the line", <<Meta("Tag", "base 4", 2, 2)>>),
        Member("width", "int32", -101, "", <<>>)>>)>>

Side ==
  <<Type("Note", "a note", <<Meta("Note", "side 1", 2, 2)>>,
      <<Member("text", "string", -102, "", <<>>)>>),
    Enum("Shape", "of a box", <<Meta("Note", "side 2", 2, 2)>>,
      <<EnumValue("box", 3, <<"square", "crate">>, "", <<>>)>>),
    Type("Area", "", <<>>,
      <<Member("shape", "Shape", None, "outer", <<Meta("Note", "side 3", 2, 2)>>),
        Member("size", "int32", -103, "", <<>>)>>)>>

(* Needs Base for a member and for its metadata.                           *)
More == <<Type("Path", "", <<Meta("Tag", "more 1", 2, 2)>>,
            <<Member("line", "Line", None, "", <<>>), Member("closed", "int8", -104, "", <<>>)>>)>>
(* Needs Base for its metadata alone.                                      *)
Marked == <<Type("Point", "", <<>>,
              <<Member("x", "int32", None, "", <<Meta("Tag", "mark", 2, 2)>>)>>)>>
(* Has a default value that does not fit.                                  *)
Bad == <<Type("Odd", "", <<>>, <<Member("size", "int64", -105, "", <<>>)>>)>>
(* Its first metadata has two equal strings, which are stored once.        *)
Twins == <<Type("Pair", "", <<Meta("Pair", "same", 4, 3), Meta("Pair", "other", 4, 4)>>,
             <<Member("a", "string", None, "", <<>>), Member("b", "string", None, "", <<>>)>>)>>

MCTexts == {Base, Side, Twins, More, Marked, Bad}
MCMetadataTexts == {Base, Side}
MCTwinTexts == {Twins}
MCRetryTexts == {Base, More}
MCBuiltins == {"string", "int8", "int32", "int64"}
MCBadValues == {-105}

(* What the theorems about these libraries ask of them.                    *)
ASSUME MCNoTemporaryDeclared == NoTemporaryDeclared
=============================================================================
