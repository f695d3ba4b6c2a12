------------------------------- MODULE Linker -------------------------------
(***************************************************************************)
(* The static linker of gaston (src/linker.go, linkWithObjs) together with *)
(* the archive index it searches (src/arfmt.go, archiveRead).              *)
(*                                                                         *)
(* One link is a sequential program: load the inputs, pull archive members *)
(* until no undefined name can be satisfied, merge definitions, build the  *)
(* global symbol table, apply relocations, write the executable.  What     *)
(* makes it hard is the data: which objects are given in which order, and  *)
(* which of the strong, tentative (COMMON) and weak definitions of a name  *)
(* are in the objects that end up loaded.                                  *)
(*                                                                         *)
(* Addresses are abstract here: a symbol's VA is the place that provides   *)
(* its storage.  Module Layout gives places their numbers.                 *)
(***************************************************************************)
EXTENDS Naturals, Sequences, FiniteSets

CONSTANTS
  Names,       \* symbol names; "main" and "__posix_stdio_init" are two of them
  Main,        \* the name "main"
  StdioInit,   \* the name "__posix_stdio_init"
  Helpers,     \* labels the runtime helper code defines (_start, sbrk, write...)
  CmdLines     \* the command lines considered: sequences of input files

(* objFile, lnkSym and arMember, reduced to what linking tells apart.  An  *)
(* object is its symbol table; a name occurs in it at most once.  A symbol *)
(* with sec = "" is undefined; a COMMON's value is its alignment.          *)
Storage  == {".text", ".rodata", ".data", ".bss"}
lnkSym   == [bind : {"LOCAL", "GLOBAL", "WEAK"},
             sec  : Storage \cup {"COMMON", ""},
             value : Nat, size : Nat]
objFile(o) ==
  /\ o.ok \in BOOLEAN
  /\ DOMAIN o.tab \subseteq Names
  /\ \A n \in DOMAIN o.tab : o.tab[n] \in lnkSym

(* An input is one object, or an archive of members.  ok = FALSE is a file *)
(* (or member) that cannot be read and parsed.                             *)
inputFile(f) ==
  /\ f.kind \in {"obj", "ar"} /\ f.ok \in BOOLEAN
  /\ Len(f.mem) \in Nat
  /\ \A m \in 1..Len(f.mem) : objFile(f.mem[m])
  /\ f.kind = "obj" => Len(f.mem) = 1

ASSUME NamesAssumption == Main \in Names /\ StdioInit \in Names /\ Helpers \subseteq Names

cmdLine(c) == Len(c) \in Nat /\ \A i \in 1..Len(c) : inputFile(c[i])

ASSUME CmdLinesAssumption == \A c \in CmdLines : cmdLine(c)

VARIABLES
  args,      \* preObjs and inputpaths, in command-line order
  pc,        \* phase of linkWithObjs
  nxt,       \* next input (or archive, or object) of the loop that is running
  objs,      \* loaded objects, in link order
  archives,  \* the archives among the inputs
  used,      \* archive members that have been pulled in
  defined,   \* names defined when the current pull round began
  todo,      \* references the current pull round has still to look at
  added,     \* whether the current round pulled anything
  realDef, weakDef, commons,  \* merged definitions by name
  symVA,     \* the global symbol table
  reloc,     \* per object: the address each of its symbols was relocated to
  out,       \* the file at outpath
  err        \* why the link failed

vars == <<args, pc, nxt, objs, archives, used, defined, todo, added,
          realDef, weakDef, commons, symVA, reloc, out, err>>

merged == <<realDef, weakDef, commons, symVA, reloc, out>>
pulling == <<archives, used, defined, todo, added>>

-----------------------------------------------------------------------------
(* An object is identified by where it comes from: <<input, member>>.      *)
NoObj == <<0, 0>>
NoVA  == <<"none">>
DefVA(o, n)  == <<"def", o, n>>
CommonVA(n)  == <<"common", n>>
HelperVA(n)  == <<"helper", n>>

Tab(o)         == args[o[1]].mem[o[2]].tab
fromArchive(o) == args[o[1]].kind = "ar"

(* Mutant of isLinkableDef: weak definitions are not definitions.          *)
isLinkableDefStrongOnly(s) == s.bind = "GLOBAL" /\ s.sec # ""

(* linker.go isLinkableDef: strong, weak and tentative definitions all     *)
(* satisfy references and belong in a symbol index.                        *)
isLinkableDef(s) == s.bind \in {"GLOBAL", "WEAK"} /\ s.sec # ""

Defines(o, n) == n \in DOMAIN Tab(o) /\ isLinkableDef(Tab(o)[n])
StrongDef(o, n) ==
  n \in DOMAIN Tab(o) /\ Tab(o)[n].bind = "GLOBAL" /\ Tab(o)[n].sec \in Storage
CommonDef(o, n) ==
  n \in DOMAIN Tab(o) /\ Tab(o)[n].bind = "GLOBAL" /\ Tab(o)[n].sec = "COMMON"
WeakDef(o, n) ==
  n \in DOMAIN Tab(o) /\ Tab(o)[n].bind = "WEAK" /\ Tab(o)[n].sec \in Storage

(* Only strong undefined references make the linker search archives.       *)
Undefined(o, n) ==
  n \in DOMAIN Tab(o) /\ Tab(o)[n].bind = "GLOBAL" /\ Tab(o)[n].sec = ""

Loaded       == {objs[i] : i \in 1..Len(objs)}
(* Mutant of DefinedNames: a name that occurs in a symbol table is defined. *)
DefinedNamesAnySymbol == {n \in Names : \E o \in Loaded : n \in DOMAIN Tab(o)}

DefinedNames == {n \in Names : \E o \in Loaded : Defines(o, n)}

(* archiveRead: a name is indexed to the first member that defines it;     *)
(* members that do not parse are left out of the index.                    *)
Indexers(f, n) ==
  {m \in 1..Len(args[f].mem) : args[f].mem[m].ok /\ Defines(<<f, m>>, n)}
(* Mutant of symMap: a member number counted from 0.                       *)
symMapFromZero(f, n) ==
  (CHOOSE m \in Indexers(f, n) : \A k \in Indexers(f, n) : m <= k) - 1

symMap(f, n) ==
  CHOOSE m \in Indexers(f, n) : \A k \in Indexers(f, n) : m <= k

(* Positions of the archives that can still be searched for n with success.*)
Resolvers(n) ==
  {a \in 1..Len(archives) :
     /\ Indexers(archives[a], n) # {}
     /\ <<archives[a], symMap(archives[a], n)>> \notin used}

(* A tentative definition's alignment, with the default for a zero, not    *)
(* power-of-two, or absurd (over 4096) one.                                *)
CommonAlign(al) ==
  IF al \in {1, 2, 4, 8, 16, 32, 64, 128, 256, 512, 1024, 2048, 4096} THEN al ELSE 8

NoCommon == [size |-> 0, align |-> 0]
IsCommon(c) == c # NoCommon

-----------------------------------------------------------------------------
Init ==
  /\ args \in CmdLines
  /\ pc = "load" /\ nxt = 1
  /\ objs = <<>> /\ archives = <<>>
  /\ used = {} /\ defined = {} /\ todo = {} /\ added = FALSE
  /\ realDef = [n \in Names |-> NoObj]
  /\ weakDef = [n \in Names |-> NoObj]
  /\ commons = [n \in Names |-> NoCommon]
  /\ symVA = [n \in Names |-> NoVA]
  /\ reloc = <<>>
  /\ out = <<"previous">>
  /\ err = "none"

Fail(why) ==
  /\ pc' = "error" /\ err' = why
  /\ UNCHANGED <<args, nxt, objs, pulling, merged>>

-----------------------------------------------------------------------------
(* Phase 1: load objects and archives in command-line order.               *)
LoadInput ==
  /\ pc = "load" /\ nxt <= Len(args) /\ args[nxt].ok
  /\ IF args[nxt].kind = "ar"
       THEN /\ archives' = Append(archives, nxt)
            /\ UNCHANGED objs
       ELSE /\ objs' = Append(objs, <<nxt, 1>>)
            /\ UNCHANGED archives
  /\ nxt' = nxt + 1
  /\ UNCHANGED <<args, pc, used, defined, todo, added, merged, err>>

LoadError ==
  /\ pc = "load" /\ nxt <= Len(args) /\ ~args[nxt].ok
  /\ Fail("load")

LoadEnd ==
  /\ pc = "load" /\ nxt > Len(args)
  /\ pc' = "force" /\ nxt' = 1
  /\ UNCHANGED <<args, objs, pulling, merged, err>>

(* Append one archive member to the loaded objects and mark it used.       *)
Pull(o) ==
  /\ used' = used \cup {o}
  /\ objs' = Append(objs, o)

(* Phase 2, first loop: every archive that indexes __posix_stdio_init      *)
(* contributes its member.                                                 *)
ForcePull ==
  /\ pc = "force" /\ nxt <= Len(archives)
  /\ IF nxt \in Resolvers(StdioInit)
       THEN Pull(<<archives[nxt], symMap(archives[nxt], StdioInit)>>)
       ELSE UNCHANGED <<used, objs>>
  /\ nxt' = nxt + 1
  /\ UNCHANGED <<args, pc, archives, defined, todo, added, merged, err>>

ForceEnd ==
  /\ pc = "force" /\ nxt > Len(archives)
  /\ pc' = "round"
  /\ UNCHANGED <<args, nxt, objs, pulling, merged, err>>

(* Phase 2, main loop.  A round fixes the set of defined names and the     *)
(* list of objects it ranges over before it pulls anything.                *)
StartRound ==
  /\ pc = "round"
  /\ pc' = "scan"
  /\ defined' = DefinedNames
  /\ todo' = {r \in (1..Len(objs)) \X Names :
                Undefined(objs[r[1]], r[2]) /\ r[2] \notin DefinedNames}
  /\ added' = FALSE
  /\ UNCHANGED <<args, nxt, objs, archives, used, merged, err>>

(* One undefined reference: the first archive with an unused member for it *)
(* contributes that member.  Objects are visited in link order, the names  *)
(* of one object in symbol-table order, which can be any.                  *)
ScanRef(r) ==
  /\ pc = "scan"
  /\ r \in todo /\ \A q \in todo : r[1] <= q[1]
  /\ todo' = todo \ {r}
  /\ IF Resolvers(r[2]) = {}
       THEN UNCHANGED <<used, objs, added>>
       ELSE LET a == CHOOSE a \in Resolvers(r[2]) : \A b \in Resolvers(r[2]) : a <= b
            IN  /\ Pull(<<archives[a], symMap(archives[a], r[2])>>)
                /\ added' = TRUE
  /\ UNCHANGED <<args, pc, nxt, archives, defined, merged, err>>

(* Mutants of EndRound: one round only, and rounds until nothing is        *)
(* undefined.                                                              *)
EndRoundOnce ==
  /\ pc = "scan" /\ todo = {}
  /\ pc' = "merge" /\ nxt' = 1
  /\ UNCHANGED <<args, objs, pulling, merged, err>>

EndRoundUntilResolved ==
  /\ pc = "scan" /\ todo = {}
  /\ IF \E o \in Loaded : \E n \in Names : Undefined(o, n) /\ n \notin DefinedNames
       THEN pc' = "round" /\ UNCHANGED nxt
       ELSE pc' = "merge" /\ nxt' = 1
  /\ UNCHANGED <<args, objs, pulling, merged, err>>

EndRound ==
  /\ pc = "scan" /\ todo = {}
  /\ IF added THEN pc' = "round" /\ UNCHANGED nxt
              ELSE pc' = "merge" /\ nxt' = 1
  /\ UNCHANGED <<args, objs, pulling, merged, err>>

-----------------------------------------------------------------------------
(* Mutant of Clash: an archive member may not repeat a user definition.    *)
ClashWithMember(o, n) ==
  StrongDef(o, n) /\ realDef[n] # NoObj /\ ~fromArchive(realDef[n])

(* Definitions are merged object by object, in link order.                 *)
Clash(o, n) ==
  /\ StrongDef(o, n) /\ realDef[n] # NoObj
  /\ ~fromArchive(realDef[n]) /\ ~fromArchive(o)

(* Mutant of Winner: the last definition wins.                             *)
WinnerLast(prev, o) == o

(* An explicit object beats an archive member; otherwise the later object  *)
(* of the two takes the name.                                              *)
Winner(prev, o) ==
  IF prev # NoObj /\ ~fromArchive(prev) /\ fromArchive(o) THEN prev ELSE o

(* Mutant of MaxNat: the last tentative definition decides.                *)
MaxNatLast(a, b) == b

MaxNat(a, b) == IF a > b THEN a ELSE b

MergeObj ==
  /\ pc = "merge" /\ nxt <= Len(objs)
  /\ LET o == objs[nxt]
     IN  /\ \A n \in Names : ~Clash(o, n)
         /\ realDef' = [n \in Names |->
              IF StrongDef(o, n) THEN Winner(realDef[n], o) ELSE realDef[n]]
         /\ commons' = [n \in Names |->
              IF CommonDef(o, n)
                THEN [size  |-> MaxNat(commons[n].size, Tab(o)[n].size),
                      align |-> MaxNat(commons[n].align, CommonAlign(Tab(o)[n].value))]
                ELSE commons[n]]
         /\ weakDef' = [n \in Names |->
              IF WeakDef(o, n) /\ weakDef[n] = NoObj THEN o ELSE weakDef[n]]
  /\ nxt' = nxt + 1
  /\ UNCHANGED <<args, pc, objs, pulling, symVA, reloc, out, err>>

DuplicateError ==
  /\ pc = "merge" /\ nxt <= Len(objs)
  /\ \E n \in Names : Clash(objs[nxt], n)
  /\ Fail("duplicate")

(* strong > COMMON > weak: a real definition removes the tentative one,    *)
(* either of them removes the weak one.                                    *)
Suppress ==
  /\ pc = "merge" /\ nxt > Len(objs)
  /\ pc' = "symva"
  /\ commons' = [n \in Names |-> IF realDef[n] # NoObj THEN NoCommon ELSE commons[n]]
  /\ weakDef' = [n \in Names |->
       IF realDef[n] # NoObj \/ IsCommon(commons'[n]) THEN NoObj ELSE weakDef[n]]
  /\ UNCHANGED <<args, nxt, objs, pulling, realDef, symVA, reloc, out, err>>

(* The global symbol table: helper labels, overwritten by the winning      *)
(* definitions, overwritten by the merged COMMONs.                         *)
BuildSymVA ==
  /\ pc = "symva"
  /\ pc' = "entry"
  /\ symVA' = [n \in Names |->
       IF IsCommon(commons[n])      THEN CommonVA(n)
       ELSE IF realDef[n] # NoObj   THEN DefVA(realDef[n], n)
       ELSE IF weakDef[n] # NoObj   THEN DefVA(weakDef[n], n)
       ELSE IF n \in Helpers        THEN HelperVA(n)
       ELSE NoVA]
  /\ UNCHANGED <<args, nxt, objs, pulling, realDef, weakDef, commons, reloc, out, err>>

(* _start branches to __posix_stdio_init and to main.                      *)
ResolveEntry ==
  /\ pc = "entry"
  /\ symVA[Main] # NoVA /\ symVA[StdioInit] # NoVA
  /\ pc' = "reloc" /\ nxt' = 1
  /\ UNCHANGED <<args, objs, pulling, merged, err>>

NoMainError ==
  /\ pc = "entry" /\ symVA[Main] = NoVA
  /\ Fail("undefined main")

NoStdioInitError ==
  /\ pc = "entry" /\ symVA[Main] # NoVA /\ symVA[StdioInit] = NoVA
  /\ Fail("undefined label")

-----------------------------------------------------------------------------
(* Mutant of weakInterposedVA: a weak loser keeps its own copy.            *)
weakInterposedVAOwn(o, n, va) == va

(* weakInterposedVA: a weak definition that lost refers to the winner.     *)
weakInterposedVA(o, n, va) ==
  IF Tab(o)[n].bind # "WEAK" \/ Tab(o)[n].sec = "" THEN va
  ELSE IF weakDef[n] = o THEN va
  ELSE symVA[n]

(* fileSymVA, then the look-up by name that a zero address falls back to.  *)
fileSymVA(o, n) ==
  LET s == Tab(o)[n]
      va == IF s.sec \in Storage THEN DefVA(o, n)
            ELSE IF s.bind = "GLOBAL" THEN symVA[n]
            ELSE NoVA
  IN  weakInterposedVA(o, n, va)

RelocTarget(o, n) ==
  IF fileSymVA(o, n) = NoVA THEN symVA[n] ELSE fileSymVA(o, n)

RelocObj ==
  /\ pc = "reloc" /\ nxt <= Len(objs)
  /\ reloc' = Append(reloc, [n \in DOMAIN Tab(objs[nxt]) |-> RelocTarget(objs[nxt], n)])
  /\ nxt' = nxt + 1
  /\ UNCHANGED <<args, pc, objs, pulling, realDef, weakDef, commons, symVA, out, err>>

(* The output is opened, which truncates it, when only writing can fail.   *)
OpenOutput ==
  /\ pc = "reloc" /\ nxt > Len(objs)
  /\ pc' = "write" /\ nxt' = 1 /\ out' = <<>>
  /\ UNCHANGED <<args, objs, pulling, realDef, weakDef, commons, symVA, reloc, err>>

OpenError ==
  /\ pc = "reloc" /\ nxt > Len(objs)
  /\ Fail("open")

(* What is written, in this order; padding belongs to what follows it.     *)
Image == <<"headers", "code", "rodata", "data">>

(* Mutant of MayWrite: a failed write does not stop the next one.          *)
MayWriteAlways == TRUE

(* write, writeB and pad all assign the same err, and do nothing once it   *)
(* is set.                                                                 *)
MayWrite == err = "none"

WriteSection ==
  /\ pc = "write" /\ nxt <= Len(Image)
  /\ IF MayWrite THEN out' = Append(out, Image[nxt]) /\ err' = "none"
                 ELSE UNCHANGED <<out, err>>
  /\ nxt' = nxt + 1
  /\ UNCHANGED <<args, pc, objs, pulling, realDef, weakDef, commons, symVA, reloc>>

(* A write that fails may have written a part.                             *)
WriteFails ==
  /\ pc = "write" /\ nxt <= Len(Image) /\ MayWrite
  /\ err' = "write" /\ out' \in {out, Append(out, "part")}
  /\ nxt' = nxt + 1
  /\ UNCHANGED <<args, pc, objs, pulling, realDef, weakDef, commons, symVA, reloc>>

EndWrite ==
  /\ pc = "write" /\ nxt > Len(Image)
  /\ pc' = IF err = "none" THEN "done" ELSE "error"
  /\ UNCHANGED <<args, nxt, objs, pulling, merged, err>>

-----------------------------------------------------------------------------
Next ==
  \/ LoadInput \/ LoadError \/ LoadEnd
  \/ ForcePull \/ ForceEnd
  \/ StartRound \/ (\E r \in todo : ScanRef(r)) \/ EndRound
  \/ MergeObj \/ DuplicateError \/ Suppress
  \/ BuildSymVA \/ ResolveEntry \/ NoMainError \/ NoStdioInitError
  \/ RelocObj \/ OpenOutput \/ OpenError \/ WriteSection \/ WriteFails \/ EndWrite

(* The linker runs to its end: a process that can take a step takes it.    *)
Spec == Init /\ [][Next]_vars /\ WF_vars(Next)

-----------------------------------------------------------------------------
Phases == {"load", "force", "round", "scan", "merge", "symva", "entry", "reloc",
           "write", "done", "error"}
Pulled == {"merge", "symva", "entry", "reloc", "write", "done"}

ObjId   == Nat \X Nat
Address == {NoVA} \cup {DefVA(o, n) : o \in Loaded, n \in Names}
                  \cup {CommonVA(n) : n \in Names} \cup {HelperVA(n) : n \in Names}

PullTypes ==
  /\ cmdLine(args)
  /\ pc \in Phases
  /\ nxt \in Nat \ {0}
  /\ objs \in Seq(ObjId)
  /\ \A i \in 1..Len(objs) :
       /\ objs[i][1] \in 1..Len(args)
       /\ objs[i][2] \in 1..Len(args[objs[i][1]].mem)
  /\ archives \in Seq(Nat)
  /\ \A i \in 1..Len(archives) :
       archives[i] \in 1..Len(args) /\ args[archives[i]].kind = "ar"
  /\ used \subseteq ObjId
  /\ defined \subseteq Names
  /\ todo \subseteq (1..Len(objs)) \X Names

MergeTypes ==
  /\ realDef \in [Names -> Loaded \cup {NoObj}]
  /\ weakDef \in [Names -> Loaded \cup {NoObj}]
  /\ commons \in [Names -> [size : Nat, align : Nat]]
  /\ symVA \in [Names -> Address]

(* Every variable of the linker has the type its declaration in            *)
(* linkWithObjs gives it; objects and archives are inputs of the command   *)
(* line, the references of a round are references of loaded objects, and   *)
(* the merged tables only name loaded objects.                             *)
TypeOK == PullTypes /\ added \in BOOLEAN /\ MergeTypes

(* When the pull loop of linkWithObjs stops, it has really reached its     *)
(* fixpoint: every strong undefined reference of a loaded object has a     *)
(* definition among the loaded objects, or no archive indexes its name.    *)
PullClosed ==
  pc \in Pulled =>
    \A o \in Loaded : \A n \in Names :
      Undefined(o, n) =>
        \/ n \in DefinedNames
        \/ \A a \in 1..Len(archives) : Indexers(archives[a], n) = {}

(* "ALL references resolve to the single chosen winner" (linkWithObjs):    *)
(* the incrementally merged tables give every name the address that the    *)
(* precedence rules give it when they are read off the loaded objects: the *)
(* explicit object's strong definition, else the last pulled member's,     *)
(* else the merged COMMON, else the first weak one, else a helper.         *)
Precedence(n) ==
  LET user   == {i \in 1..Len(objs) : StrongDef(objs[i], n) /\ ~fromArchive(objs[i])}
      strong == {i \in 1..Len(objs) : StrongDef(objs[i], n)}
      weak   == {i \in 1..Len(objs) : WeakDef(objs[i], n)}
      common == {i \in 1..Len(objs) : CommonDef(objs[i], n)}
  IN  IF user # {}        THEN {DefVA(objs[i], n) : i \in user}
      ELSE IF strong # {} THEN {DefVA(objs[i], n) : i \in {k \in strong : \A j \in strong : j <= k}}
      ELSE IF common # {} THEN {CommonVA(n)}
      ELSE IF weak # {}   THEN {DefVA(objs[i], n) : i \in {k \in weak : \A j \in weak : k <= j}}
      ELSE IF n \in Helpers THEN {HelperVA(n)}
      ELSE {NoVA}

WinnerPrecedence ==
  pc \in {"entry", "reloc", "write", "done"} => \A n \in Names : {symVA[n]} = Precedence(n)

(* "Duplicate strong definitions are a hard error between explicit user    *)
(* objects" (objFile.fromArchive), whatever archive members were merged    *)
(* between them: two of them never get past the merge, and the error is    *)
(* reported only for two of them.                                          *)
UserDuplicates ==
  {n \in Names : \E i, j \in 1..Len(objs) :
     /\ i # j /\ ~fromArchive(objs[i]) /\ ~fromArchive(objs[j])
     /\ StrongDef(objs[i], n) /\ StrongDef(objs[j], n)}

DuplicateIffError ==
  /\ pc \in {"symva", "entry", "reloc", "write", "done"} => UserDuplicates = {}
  /\ err = "duplicate" => UserDuplicates # {}

(* Two objects that name the same thing are relocated to the same address, *)
(* except where one of them has its own copy: a local symbol, or a strong  *)
(* duplicate that lost and is referenced inside its own object.            *)
OwnCopy(o, n) ==
  /\ Tab(o)[n].sec \in Storage
  /\ Tab(o)[n].bind = "LOCAL" \/ (StrongDef(o, n) /\ realDef[n] # o)

OneAddress ==
  \A j, k \in 1..Len(reloc) : \A n \in DOMAIN reloc[j] \cap DOMAIN reloc[k] :
    OwnCopy(objs[j], n) \/ OwnCopy(objs[k], n) \/ reloc[j][n] = reloc[k][n]

(* A successful link leaves a strong reference unresolved (a warning and   *)
(* address 0 in linkWithObjs) only when no input defines the name at all:  *)
(* no explicit object, and no member an archive indexes.                   *)
NoMissedDefinition ==
  pc = "done" =>
    \A k \in 1..Len(reloc) : \A n \in DOMAIN reloc[k] :
      Undefined(objs[k], n) /\ reloc[k][n] = NoVA =>
        \A i \in 1..Len(args) : Indexers(i, n) = {}

(* The merged COMMON slot is as large and as aligned as every tentative    *)
(* definition that shares it needs, and no larger than the largest.        *)
CommonCovers ==
  pc \in {"symva", "entry", "reloc", "write", "done"} =>
    \A n \in Names : IsCommon(commons[n]) =>
      /\ \A o \in Loaded : CommonDef(o, n) =>
           /\ Tab(o)[n].size <= commons[n].size
           /\ CommonAlign(Tab(o)[n].value) <= commons[n].align
      /\ \E o \in Loaded : CommonDef(o, n) /\ Tab(o)[n].size = commons[n].size

(* linkWithObjs reports success only for a file it has written whole, and  *)
(* otherwise leaves a beginning of it: the err its writes share keeps a    *)
(* failure through all that come after, and none of them writes behind the *)
(* place where one failed.                                                 *)
OutputWhole ==
  /\ pc = "done" => out = Image
  /\ pc = "write" \/ err = "write" =>
       \A i \in 1..Len(out) : out[i] = Image[i] \/ (err = "write" /\ i = Len(out))

(* "Archive members are lazy-linked (only included when they resolve an    *)
(* otherwise-undefined symbol)": a member enters after the forced one only *)
(* for a name that a loaded object references, and that no explicit object *)
(* defines, weakly or tentatively either ("a weak def in a user object     *)
(* PREVENTS pulling").                                                     *)
PullOnDemand ==
  [][pc = "scan" /\ objs' # objs =>
       LET m == objs'[Len(objs')]
       IN  \E n \in Names :
             /\ Defines(m, n)
             /\ \E o \in Loaded : Undefined(o, n)
             /\ \A o \in Loaded :
                  fromArchive(o) \/ ~(StrongDef(o, n) \/ CommonDef(o, n) \/ WeakDef(o, n))]_vars

(* Every link ends: the pull loop "Repeat until stable" stabilises.        *)
Termination == <>(pc \in {"done", "error"})

(* "Undefined symbol — search archives; first resolver wins": a member is  *)
(* pulled for a name only while no loaded object defines that name.        *)
FirstResolverWins ==
  [][pc = "scan" /\ objs' # objs =>
       \A r \in todo \ todo' : r[2] \notin DefinedNames]_vars
=============================================================================
