------------------------------ MODULE TypeLib ------------------------------
(***************************************************************************)
(* The type libraries of a context.  A library is loaded from text,        *)
(* declaration by declaration, or from a file that was written from        *)
(* another context, table by table; either is appended to the tables the   *)
(* context has.  Descriptions refer to each other and to strings, default  *)
(* values and metadata by index, so everything that is appended from a     *)
(* file has to be moved by the lengths of the tables it is appended to.    *)
(*                                                                         *)
(* Indices count from 0, as in the code.  A string, a default value or a   *)
(* piece of metadata is one element of its table.  Sizes and offsets of    *)
(* types are left out.                                                     *)
(***************************************************************************)
EXTENDS Integers, Sequences, SequencesExt

CONSTANTS
  Texts,     \* the libraries in text form: sequences of declarations
  Builtins,  \* the names in BUILTIN_TYPES
  BadValues, \* default values that do not fit the type of their member
  MaxFiles,  \* the bound on files written
  MaxLoads   \* the bound on loads into one context

None == -1              \* UINT32_MAX
TempType == "a_type_here"

(* What a library in text form declares.  packed and stored are the sizes  *)
(* of a blob with the instance, as the packer and as the store write it.   *)
Instances == [of : STRING, value : STRING, packed : Nat, stored : Nat]
DefaultTexts == {n \in Int : n <= None}
MemberDecls == [name : STRING, of : STRING, default : DefaultTexts,
                comment : STRING, metas : Seq(Instances)]
ValueDecls == [name : STRING, value : Int, aliases : Seq(STRING),
               comment : STRING, metas : Seq(Instances)]
TypeDecls == [kind : {"type"}, name : STRING, comment : STRING,
              metas : Seq(Instances), parts : Seq(MemberDecls) \ {<<>>}]
EnumDecls == [kind : {"enum"}, name : STRING, comment : STRING,
              metas : Seq(Instances), parts : Seq(ValueDecls)]

(* Types without members are refused; a default value, until it is packed, *)
(* is where it is in the text, which is never taken for an index.          *)
ASSUME TextsAssumption == Texts \subseteq Seq(TypeDecls \cup EnumDecls)

(* That a literal is a string TLC knows, and the provers do not.           *)
ASSUME TempTypeAssumption == TempType \in STRING

VARIABLES
  phase,  \* what the context is doing: see Phases
  ctx,    \* the tables of dl_context
  lib,    \* the library that is being loaded
  pos,    \* how far: the declaration and part of it, or the table index
  local,  \* variables of the functions that read a type or enum
  start,  \* type_start, member_start and metadata_start
  files,  \* the files written so far
  log     \* history: the loads into this context

vars == <<phase, ctx, lib, pos, local, start, files, log>>

(***************************************************************************)
(* "lost" is a load that took for metadata what is none, of which nothing  *)
(* more is said.                                                           *)
(***************************************************************************)
Phases == {"idle", "text", "defaults", "metadata", "binary", "lost"}

Empty == [strings |-> <<>>, types |-> <<>>, members |-> <<>>, enums |-> <<>>,
          values |-> <<>>, aliases |-> <<>>, defaults |-> <<>>, metas |-> <<>>]

(* The tables.                                                             *)
Comments == Nat \cup {None}
TypeDescs == [name : Nat, comment : Comments, first : Nat, parts : Nat \ {0},
              meta : Nat, count : Nat]
MemberDescs == [name : Nat, comment : Comments, of : STRING, default : Int,
                meta : Nat, count : Nat]
EnumDescs == [name : Nat, comment : Comments, first : Nat, parts : Nat,
              alias : Nat, aliases : Nat, meta : Nat, count : Nat]
ValueDescs == [value : Int, alias : Nat, comment : Comments, meta : Nat, count : Nat]
AliasDescs == [name : Nat, value : Nat]
Defaults == [of : STRING, value : Int]
Metas == [data : Instances, ready : BOOLEAN]

Tables == [strings : Seq(STRING), types : Seq(TypeDescs), members : Seq(MemberDescs),
           enums : Seq(EnumDescs), values : Seq(ValueDescs), aliases : Seq(AliasDescs),
           defaults : Seq(Defaults), metas : Seq(Metas)]

Get(table, index) == table[index + 1]
Mapped(table, F(_)) == [i \in DOMAIN table |-> F(table[i])]

String(index) == Get(ctx.strings, index)
Comment(index) == IF index = None THEN "" ELSE String(index)

(* dl_internal_find_type_by_name and dl_internal_find_enum: the first one. *)
FirstNamed(table, name) == SelectInSeq(table, LAMBDA d : String(d.name) = name) - 1
Loaded(name) == FirstNamed(ctx.types, name) # None
Known(name) == name \in Builtins \/ Loaded(name) \/ FirstNamed(ctx.enums, name) # None

Failed == \E i \in DOMAIN log : ~log[i].ok
Declared == FlattenSeq([i \in DOMAIN log |-> log[i].declared])

-----------------------------------------------------------------------------

NoLocal == [meta |-> 0, first |-> 0, alias |-> 0]
NoStart == [types |-> 0, members |-> 0, metas |-> 0]

Init ==
  /\ phase = "idle"
  /\ ctx = Empty
  /\ lib = <<>> /\ pos = <<0, 0>> /\ local = NoLocal /\ start = NoStart
  /\ files = <<>>
  /\ log = <<>>

(* dl_context_destroy and dl_context_create.                               *)
NewContext ==
  /\ phase = "idle"
  /\ log # <<>>
  /\ ctx' = Empty
  /\ log' = <<>>
  /\ UNCHANGED <<phase, lib, pos, local, start, files>>

(* The functions that load return.                                         *)
Return(ok, from, declared) ==
  /\ phase' = "idle"
  /\ log' = Append(log, [ok |-> ok, from |-> from, declared |-> declared])
  /\ lib' = <<>> /\ pos' = <<0, 0>> /\ local' = NoLocal /\ start' = NoStart
  /\ UNCHANGED files
Refused == Return(FALSE, "text", <<>>)

LoadText(text) ==
  /\ phase = "idle"
  /\ Len(log) < MaxLoads
  /\ phase' = "text"
  /\ lib' = text
  /\ pos' = <<1, 0>>
  /\ start' = [types |-> Len(ctx.types), members |-> Len(ctx.members),
               metas |-> Len(ctx.metas)]
  /\ UNCHANGED <<ctx, local, files, log>>

Reading == phase = "text" /\ pos[1] <= Len(lib)
Decl == lib[pos[1]]
InParts(kind) == /\ Reading /\ Decl.kind = kind
                 /\ pos[2] \in 1..Len(Decl.parts)
Part == Decl.parts[pos[2]]
AfterParts(kind) == Reading /\ Decl.kind = kind /\ pos[2] = Len(Decl.parts) + 1

(***************************************************************************)
(* Metadata is put aside as text until the types are known; what has none  *)
(* has index 0.                                                            *)
(***************************************************************************)
Pending(metas) == Mapped(metas, LAMBDA m : [data |-> m, ready |-> FALSE])
MetaStart(metas) == IF metas = <<>> THEN 0 ELSE Len(ctx.metas)

CommentString(d) == IF d.comment = "" THEN <<>> ELSE <<d.comment>>
CommentIndex(d, before) ==
  IF d.comment = "" THEN None ELSE Len(ctx.strings) + before

ReadBegin ==
  /\ Reading
  /\ pos[2] = 0
  /\ local' = [meta |-> MetaStart(Decl.metas), alias |-> Len(ctx.aliases),
               first |-> IF Decl.kind = "type" THEN Len(ctx.members) ELSE Len(ctx.values)]
  /\ ctx' = [ctx EXCEPT !.metas = @ \o Pending(Decl.metas)]
  /\ pos' = <<pos[1], 1>>
  /\ UNCHANGED <<phase, lib, start, files, log>>

ReadMember ==
  /\ InParts("type")
  /\ ctx' = [ctx EXCEPT
       !.metas = @ \o Pending(Part.metas),
       !.strings = @ \o <<Part.name>> \o CommentString(Part),
       !.members = Append(@,
         [name |-> Len(ctx.strings), comment |-> CommentIndex(Part, 1), of |-> Part.of,
          default |-> Part.default,  \* where it is in the text stands for the value
          meta |-> MetaStart(Part.metas), count |-> Len(Part.metas)])]
  /\ pos' = <<pos[1], pos[2] + 1>>
  /\ UNCHANGED <<phase, lib, local, start, files, log>>

ReadType ==
  /\ AfterParts("type")
  /\ ctx' = [ctx EXCEPT
       !.strings = @ \o <<Decl.name>> \o CommentString(Decl),
       !.types = Append(@,
         [name |-> Len(ctx.strings), comment |-> CommentIndex(Decl, 1),
          first |-> local.first, parts |-> Len(Decl.parts),
          meta |-> local.meta, count |-> Len(Decl.metas)])]
  /\ pos' = <<pos[1] + 1, 0>>
  /\ UNCHANGED <<phase, lib, local, start, files, log>>

(* An enumerator's name is an alias like the others, and the first.        *)
ReadValue ==
  /\ InParts("enum")
  /\ LET names == <<Part.name>> \o Part.aliases
     IN ctx' = [ctx EXCEPT
          !.metas = @ \o Pending(Part.metas),
          !.strings = @ \o names \o CommentString(Part),
          !.aliases = @ \o [i \in DOMAIN names |->
                              [name |-> Len(ctx.strings) + i - 1, value |-> Len(ctx.values)]],
          !.values = Append(@,
            [value |-> Part.value, alias |-> Len(ctx.aliases),
             comment |-> CommentIndex(Part, Len(names)),
             meta |-> MetaStart(Part.metas), count |-> Len(Part.metas)])]
  /\ pos' = <<pos[1], pos[2] + 1>>
  /\ UNCHANGED <<phase, lib, local, start, files, log>>

ReadEnum ==
  /\ AfterParts("enum")
  /\ ctx' = [ctx EXCEPT
       !.strings = @ \o <<Decl.name>> \o CommentString(Decl),
       !.enums = Append(@,
         [name |-> Len(ctx.strings), comment |-> CommentIndex(Decl, 1),
          first |-> local.first, parts |-> Len(Decl.parts),
          alias |-> local.alias, aliases |-> Len(ctx.aliases) - local.alias,
          meta |-> local.meta, count |-> Len(Decl.metas)])]
  /\ pos' = <<pos[1] + 1, 0>>
  /\ UNCHANGED <<phase, lib, local, start, files, log>>

(* The text goes on in a way that cannot be parsed: what was read stays.   *)
ParseError ==
  /\ Reading
  /\ UNCHANGED ctx
  /\ Refused

OwnMembers == start.members..(Len(ctx.members) - 1)
TypesKnown == \A i \in OwnMembers : Known(Get(ctx.members, i).of)

FixUp ==
  /\ phase = "text" /\ ~Reading
  /\ TypesKnown
  /\ phase' = "defaults"
  /\ pos' = <<start.members, 0>>
  /\ UNCHANGED <<ctx, lib, local, start, files, log>>

UnknownType ==
  /\ phase = "text" /\ ~Reading
  /\ ~TypesKnown
  /\ UNCHANGED ctx
  /\ Refused

-----------------------------------------------------------------------------

(***************************************************************************)
(* A default value is packed as the only member of a temporary type, which *)
(* is looked up by its name.  The temporary type is removed when the value *)
(* was packed.                                                             *)
(***************************************************************************)
NextDefault(i) ==
  /\ phase = "defaults"
  /\ i \in OwnMembers /\ i >= pos[1]
  /\ Get(ctx.members, i).default # None
  /\ \A j \in OwnMembers : j >= pos[1] /\ j < i => Get(ctx.members, j).default = None

WithTemporary(member) ==
  [ctx EXCEPT
     !.strings = Append(@, TempType),
     !.members = Append(@, member),
     !.types = Append(@, [name |-> Len(ctx.strings), comment |-> 0,
                          first |-> Len(ctx.members), parts |-> 1, meta |-> 0, count |-> 0])]

PackedAs(member) ==
  LET found == FirstNamed(ctx.types, TempType)
  IN IF found = None THEN member
     ELSE Get(ctx.members, Get(ctx.types, found).first)

Packs(member) ==
  /\ String(PackedAs(member).name) = String(member.name)
  /\ member.default \notin BadValues

BuildDefault(i) ==
  /\ NextDefault(i)
  /\ LET member == Get(ctx.members, i)
     IN /\ Packs(member)
        /\ ctx' = [ctx EXCEPT
             !.members[i + 1].default = Len(ctx.defaults),
             !.defaults = Append(@, [of |-> PackedAs(member).of, value |-> member.default])]
  /\ pos' = <<i + 1, 0>>
  /\ UNCHANGED <<phase, lib, local, start, files, log>>

DefaultFails(i) ==
  /\ NextDefault(i)
  /\ ~Packs(Get(ctx.members, i))
  /\ ctx' = WithTemporary(Get(ctx.members, i))
  /\ Refused

DefaultsDone ==
  /\ phase = "defaults"
  /\ \A i \in OwnMembers : i >= pos[1] => Get(ctx.members, i).default = None
  /\ phase' = "metadata"
  /\ pos' = <<start.metas, 0>>
  /\ UNCHANGED <<ctx, lib, local, start, files, log>>

(* The metadata is packed, now that its type can be found: dl_txt_pack     *)
(* takes neither an enum nor a type that is built in.                      *)
CreateMetadata ==
  /\ phase = "metadata"
  /\ pos[1] < Len(ctx.metas)
  /\ Loaded(Get(ctx.metas, pos[1]).data.of)
  /\ ctx' = [ctx EXCEPT !.metas[pos[1] + 1].ready = TRUE]
  /\ pos' = <<pos[1] + 1, 0>>
  /\ UNCHANGED <<phase, lib, local, start, files, log>>

MetadataFails ==
  /\ phase = "metadata"
  /\ pos[1] < Len(ctx.metas)
  /\ ~Loaded(Get(ctx.metas, pos[1]).data.of)
  /\ UNCHANGED ctx
  /\ Refused

TextDone ==
  /\ phase = "metadata"
  /\ pos[1] = Len(ctx.metas)
  /\ UNCHANGED ctx
  /\ Return(TRUE, "text", lib)

-----------------------------------------------------------------------------

(***************************************************************************)
(* dl_context_write_type_library.  The offsets of the metadata are sums of *)
(* the sizes the blobs in memory have; the blobs that are written are      *)
(* stored from the instances in them.                                      *)
(***************************************************************************)
Offset(sizes, i) ==
  LET upTo[k \in 0..(i - 1)] == IF k = 0 THEN 0 ELSE upTo[k - 1] + sizes[k]
  IN upTo[i - 1]
SizesPacked(metas) == Mapped(metas, LAMBDA m : m.data.packed)
SizesStored(metas) == Mapped(metas, LAMBDA m : m.data.stored)

Image ==
  [tables |-> [ctx EXCEPT !.metas =
                 Mapped(@, LAMBDA m : [m EXCEPT !.data.packed = m.data.stored])],
   offsets |-> [i \in DOMAIN ctx.metas |-> Offset(SizesPacked(ctx.metas), i)],
   declared |-> Declared]

(* After a failed load metadata may be text still, which cannot be written *)
(* as a blob.                                                              *)
WriteLibrary ==
  /\ phase = "idle"
  /\ log # <<>> /\ ~Failed
  /\ Len(files) < MaxFiles
  /\ files' = Append(files, Image)
  /\ UNCHANGED <<phase, ctx, lib, pos, local, start, log>>

Moved(index, by) == IF index = None THEN None ELSE index + by
(* Mutant: metadata is not moved.                                          *)
MovedMetaKept(index) == index
MovedMeta(index) == IF index = 0 THEN 0 ELSE index + Len(ctx.metas)

(* Mutant: the first member is moved by the length of another table.       *)
MovedTypeByStrings(d) ==
  [d EXCEPT !.name = @ + Len(ctx.strings), !.comment = Moved(@, Len(ctx.strings)),
            !.first = @ + Len(ctx.strings), !.meta = MovedMeta(@)]
MovedType(d) ==
  [d EXCEPT !.name = @ + Len(ctx.strings), !.comment = Moved(@, Len(ctx.strings)),
            !.first = @ + Len(ctx.members), !.meta = MovedMeta(@)]
(* Mutant: the default value is not moved.                                 *)
MovedMemberDefaultKept(d) ==
  [d EXCEPT !.name = @ + Len(ctx.strings), !.meta = MovedMeta(@)]
MovedMember(d) ==
  [d EXCEPT !.name = @ + Len(ctx.strings), !.meta = MovedMeta(@),
            !.default = Moved(@, Len(ctx.defaults))]
MovedEnum(d) ==
  [d EXCEPT !.name = @ + Len(ctx.strings), !.comment = Moved(@, Len(ctx.strings)),
            !.first = @ + Len(ctx.values), !.alias = @ + Len(ctx.aliases),
            !.meta = MovedMeta(@)]
(* Mutant: the value an alias stands for is not moved.                     *)
MovedAliasValueKept(d) == [d EXCEPT !.name = @ + Len(ctx.strings)]
MovedAlias(d) ==
  [d EXCEPT !.name = @ + Len(ctx.strings), !.value = @ + Len(ctx.values)]
MovedValue(d) ==
  [d EXCEPT !.alias = @ + Len(ctx.aliases), !.meta = MovedMeta(@)]

(* Mutant: all types are moved, not only those of the file.                *)
LoadTablesAllMoved(file) ==
  /\ phase = "idle"
  /\ Len(log) < MaxLoads
  /\ phase' = "binary"
  /\ lib' = file
  /\ pos' = <<1, 0>>
  /\ start' = [types |-> Len(ctx.types), members |-> Len(ctx.members),
               metas |-> Len(ctx.metas)]
  /\ ctx' = [ctx EXCEPT
       !.strings = @ \o file.tables.strings,
       !.types = Mapped(@ \o file.tables.types, MovedType),
       !.members = @ \o Mapped(file.tables.members, MovedMember),
       !.enums = @ \o Mapped(file.tables.enums, MovedEnum),
       !.values = @ \o Mapped(file.tables.values, MovedValue),
       !.aliases = @ \o Mapped(file.tables.aliases, MovedAlias)]
  /\ UNCHANGED <<local, files, log>>

(* All tables but the default values and the metadata are appended, moved. *)
LoadTables(file) ==
  /\ phase = "idle"
  /\ Len(log) < MaxLoads
  /\ phase' = "binary"
  /\ lib' = file
  /\ pos' = <<1, 0>>
  /\ start' = [types |-> Len(ctx.types), members |-> Len(ctx.members),
               metas |-> Len(ctx.metas)]
  /\ ctx' = [ctx EXCEPT
       !.strings = @ \o file.tables.strings,
       !.types = @ \o Mapped(file.tables.types, MovedType),
       !.members = @ \o Mapped(file.tables.members, MovedMember),
       !.enums = @ \o Mapped(file.tables.enums, MovedEnum),
       !.values = @ \o Mapped(file.tables.values, MovedValue),
       !.aliases = @ \o Mapped(file.tables.aliases, MovedAlias)]
  /\ UNCHANGED <<local, files, log>>

(* Does the file have a blob where its offset says it is?                  *)
BlobThere(i) == lib.offsets[i] = Offset(SizesStored(lib.tables.metas), i)

LoadMetadata ==
  /\ phase = "binary"
  /\ pos[1] <= Len(lib.tables.metas)
  /\ BlobThere(pos[1])
  /\ ctx' = [ctx EXCEPT !.metas = Append(@, lib.tables.metas[pos[1]])]
  /\ pos' = <<pos[1] + 1, 0>>
  /\ UNCHANGED <<phase, lib, local, start, files, log>>

LoadMetadataLost ==
  /\ phase = "binary"
  /\ pos[1] <= Len(lib.tables.metas)
  /\ ~BlobThere(pos[1])
  /\ phase' = "lost"
  /\ UNCHANGED <<ctx, lib, pos, local, start, files, log>>

LoadBinaryDone ==
  /\ phase = "binary"
  /\ pos[1] > Len(lib.tables.metas)
  /\ ctx' = [ctx EXCEPT !.defaults = @ \o lib.tables.defaults]
  /\ Return(TRUE, "file", lib.declared)

Next ==
  \/ NewContext
  \/ \E text \in Texts : LoadText(text)
  \/ ReadBegin
  \/ ReadMember
  \/ ReadType
  \/ ReadValue
  \/ ReadEnum
  \/ ParseError
  \/ FixUp
  \/ UnknownType
  \/ \E i \in OwnMembers : BuildDefault(i) \/ DefaultFails(i)
  \/ DefaultsDone
  \/ CreateMetadata
  \/ MetadataFails
  \/ TextDone
  \/ WriteLibrary
  \/ \E i \in DOMAIN files : LoadTables(files[i])
  \/ LoadMetadata
  \/ LoadMetadataLost
  \/ LoadBinaryDone

Spec == Init /\ [][Next]_vars
-----------------------------------------------------------------------------

(***************************************************************************)
(* The names of a table are in its strings, the members of its types and   *)
(* the values and aliases of its enums are in it.                          *)
(***************************************************************************)
References(t) ==
  /\ \A i \in DOMAIN t.types :
       /\ t.types[i].name < Len(t.strings)
       /\ t.types[i].first + t.types[i].parts <= Len(t.members)
  /\ \A i \in DOMAIN t.members : t.members[i].name < Len(t.strings)
  /\ \A i \in DOMAIN t.enums :
       /\ t.enums[i].name < Len(t.strings)
       /\ t.enums[i].first + t.enums[i].parts <= Len(t.values)
       /\ t.enums[i].alias + t.enums[i].aliases <= Len(t.aliases)
  /\ \A i \in DOMAIN t.values : t.values[i].alias < Len(t.aliases)
  /\ \A i \in DOMAIN t.aliases :
       /\ t.aliases[i].name < Len(t.strings)
       /\ t.aliases[i].value < Len(t.values)

(***************************************************************************)
(* Whatever a context or a file is read from, at every step, its tables    *)
(* have the descriptions the code reads and no reference leads out of them.*)
(***************************************************************************)
TypeOK ==
  /\ phase \in Phases
  /\ ctx \in Tables /\ References(ctx)
  /\ \A i \in DOMAIN files :
       /\ files[i].tables \in Tables /\ References(files[i].tables)
       /\ files[i].offsets \in Seq(Nat)

(***************************************************************************)
(* What dl_reflect and the text packer find for a name.                    *)
(***************************************************************************)
Nothing == [of |-> "", value |-> None]
DefaultOf(member) ==
  IF member.default \in 0..(Len(ctx.defaults) - 1)
  THEN Get(ctx.defaults, member.default) ELSE Nothing

TypeOf(name) == Get(ctx.types, FirstNamed(ctx.types, name))
EnumOf(name) == Get(ctx.enums, FirstNamed(ctx.enums, name))
PartsOf(d, table) == [i \in 1..d.parts |-> Get(table, d.first + i - 1)]

MembersOf(name) ==
  Mapped(PartsOf(TypeOf(name), ctx.members),
         LAMBDA m : <<String(m.name), m.of, DefaultOf(m)>>)
ValuesOf(name) ==
  Mapped(PartsOf(EnumOf(name), ctx.values),
         LAMBDA v : <<String(Get(ctx.aliases, v.alias).name), v.value>>)
AliasesOf(name) ==
  LET e == EnumOf(name)
  IN [i \in 1..e.aliases |->
        LET alias == Get(ctx.aliases, e.alias + i - 1)
        IN <<String(alias.name), Get(ctx.values, alias.value).value>>]

MetasOf(d) == [i \in 1..d.count |-> Get(ctx.metas, d.meta + i - 1).data]
MetaName(data) == <<data.of, data.value>>

DeclaredMembers(decl) ==
  Mapped(decl.parts, LAMBDA p :
    <<p.name, p.of, IF p.default = None THEN Nothing ELSE [of |-> p.of, value |-> p.default]>>)
DeclaredAliases(decl) ==
  FlattenSeq(Mapped(decl.parts, LAMBDA p :
    Mapped(<<p.name>> \o p.aliases, LAMBDA name : <<name, p.value>>)))

(* Declarations that no earlier one of the same name hides.                *)
Visible(kind) ==
  {Declared[k] : k \in {k \in DOMAIN Declared :
     /\ Declared[k].kind = kind
     /\ \A j \in 1..(k - 1) : Declared[j].kind = kind => Declared[j].name # Declared[k].name}}

Settled == phase = "idle" /\ ~Failed

(* The name of the temporary type is left to the code, which does not look *)
(* whether it is taken: a type of that name would be found in its place.   *)
NoTemporaryDeclared == \A text \in Texts : \A i \in DOMAIN text : text[i].name # TempType

(* The types in sight are as their declarations say.                      *)
TypesAsDeclared ==
  \A decl \in Visible("type") :
    /\ MembersOf(decl.name) = DeclaredMembers(decl)
    /\ Comment(TypeOf(decl.name).comment) = decl.comment

(***************************************************************************)
(* However a context came to have a type, from text or through files, and  *)
(* whatever was loaded before and after it, the type has the members, the  *)
(* default values and the comment of its declaration.                      *)
(***************************************************************************)
TypesKept == Settled => TypesAsDeclared

(***************************************************************************)
(* However a context came to have an enum, from text or through files,     *)
(* each name and alias of it stands for the value of its declaration.      *)
(***************************************************************************)
EnumsKept ==
  Settled =>
    \A decl \in Visible("enum") :
      /\ ValuesOf(decl.name) = Mapped(decl.parts, LAMBDA p : <<p.name, p.value>>)
      /\ AliasesOf(decl.name) = DeclaredAliases(decl)
      /\ Comment(EnumOf(decl.name).comment) = decl.comment

(* A description and the metadata of its declaration agree.                *)
MetaRight(d, metas) == Mapped(MetasOf(d), MetaName) = Mapped(metas, MetaName)
EveryMeta(Right(_, _)) ==
  /\ \A decl \in Visible("type") :
       LET d == TypeOf(decl.name)
       IN /\ Right(d, decl.metas)
          /\ \A i \in DOMAIN decl.parts :
               Right(PartsOf(d, ctx.members)[i], decl.parts[i].metas)
  /\ \A decl \in Visible("enum") :
       LET d == EnumOf(decl.name)
       IN /\ Right(d, decl.metas)
          /\ \A i \in DOMAIN decl.parts :
               Right(PartsOf(d, ctx.values)[i], decl.parts[i].metas)

(* Types, members, enums and enumerators keep the instances attached to    *)
(* them.                                                                   *)
MetadataKept == Settled => EveryMeta(MetaRight)

(* They do where their metadata is not the first of the file.              *)
LaterMetadataKept ==
  Settled => EveryMeta(LAMBDA d, metas : d.meta # 0 => MetaRight(d, metas))

(* A file that the library wrote can be loaded.                            *)
FilesReadable == phase # "lost"

(* A context into which only a file was loaded is written as that file.    *)
RewrittenAlike ==
  Settled /\ Len(log) = 1 /\ log[1].from = "file" =>
    \E i \in DOMAIN files : Image = files[i]

TypeView(name) == <<MembersOf(name), Mapped(MetasOf(TypeOf(name)), MetaName)>>
EnumView(name) == <<AliasesOf(name), Mapped(MetasOf(EnumOf(name)), MetaName)>>

(***************************************************************************)
(* No load, be it refused, changes what was loaded before: a name that has *)
(* a meaning keeps it, and its default values, enumerators and metadata.   *)
(***************************************************************************)
EarlierKept ==
  [][log' # <<>> =>
       /\ \A decl \in Visible("type") : TypeView(decl.name)' = TypeView(decl.name)
       /\ \A decl \in Visible("enum") : EnumView(decl.name)' = EnumView(decl.name)]_ctx

(* A library that was refused and is loaded again, when what it lacked is  *)
(* there, is as good as one that was not refused.                          *)
RetriedTypesKept == phase = "idle" => TypesAsDeclared
=============================================================================
