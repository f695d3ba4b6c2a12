----------------------------- MODULE MC_Linker -----------------------------
(***************************************************************************)
(* Command lines for model checking Linker: every line of one of the       *)
(* families below, each built so that one group of rules is exercised.     *)
(***************************************************************************)
EXTENDS Linker, TLC

Absent == [bind |-> "none", sec |-> "", value |-> 0, size |-> 0]
Strong == [bind |-> "GLOBAL", sec |-> ".text", value |-> 0, size |-> 4]
Datum  == [bind |-> "GLOBAL", sec |-> ".data", value |-> 0, size |-> 4]
Undef  == [bind |-> "GLOBAL", sec |-> "", value |-> 0, size |-> 0]
Weak   == [bind |-> "WEAK", sec |-> ".text", value |-> 0, size |-> 4]
WUndef == [bind |-> "WEAK", sec |-> "", value |-> 0, size |-> 0]
Local  == [bind |-> "LOCAL", sec |-> ".data", value |-> 0, size |-> 4]
Common(sz, al) == [bind |-> "GLOBAL", sec |-> "COMMON", value |-> al, size |-> sz]

(* An object from a function that gives some names Absent.                 *)
Obj(t) == [ok |-> TRUE, tab |-> [n \in {k \in DOMAIN t : t[k] # Absent} |-> t[n]]]
Broken == [ok |-> FALSE, tab |-> <<>>]
File(o) == [kind |-> "obj", ok |-> o.ok, mem |-> <<o>>]
Lib(ms) == [kind |-> "ar", ok |-> TRUE, mem |-> ms]
BadLib  == [kind |-> "ar", ok |-> FALSE, mem |-> <<>>]

(* Which archive members are pulled: two archives compete for f, g and     *)
(* write, and members refer to each other.                                 *)
User(f, g, w) == File(Obj("main" :> Strong @@ "f" :> f @@ "g" :> g @@ "write" :> w))
Lib1(mf, bg, first) ==
  Lib(<<first, Obj("init" :> Strong @@ "f" :> mf), Obj("f" :> Strong @@ "g" :> bg)>>)
Lib2(i, f, g, w) == Lib(<<Obj("init" :> i @@ "f" :> f @@ "g" :> g @@ "write" :> w)>>)

PullLines ==
  LET users == {User(f, g, w) : f \in {Absent, Undef, Weak, Common(4, 4)},
                                g \in {Absent, Undef, WUndef}, w \in {Absent, Undef}}
      libs1 == {Lib1(mf, bg, Broken) : mf \in {Absent, Undef}, bg \in {Undef, Strong}}
      libs2 == {Lib2(i, f, g, w) : i \in {Absent, Strong}, f \in {Absent, Weak, Datum},
                                   g \in {Absent, Strong}, w \in {Absent, Strong}}
  IN  {<<u, a, b>> : u \in users, a \in libs1, b \in libs2}
        \cup {<<b, User(Absent, Undef, Undef), a>> : a \in libs1, b \in libs2}

(* Which definition wins: three explicit objects and a member that is      *)
(* pulled for g and also has f.                                            *)
MergeLines ==
  LET kinds == {Absent, Undef, WUndef, Weak, Strong, Local, Common(4, 4), Common(8, 3)}
      lib(f) == Lib(<<Obj("g" :> Strong @@ "f" :> f)>>)
  IN  {<<File(Obj("main" :> Strong @@ "init" :> Strong @@ "g" :> Undef @@ "f" :> f1)),
         lib(f3), File(Obj("f" :> f2)), lib(f4)>> :
         f1, f2 \in kinds, f3, f4 \in {Absent, Weak, Strong, Common(16, 16)}}
        \cup
      {<<File(Obj("main" :> Strong @@ "init" :> Strong @@ "f" :> f1)),
         File(Obj("f" :> f2)), File(Obj("f" :> f3))>> : f1, f2, f3 \in kinds}

(* A missing main, a missing __posix_stdio_init, unreadable inputs.        *)
ErrorLines ==
  LET u == User(Absent, Absent, Absent)
      i == Lib1(Absent, Absent, Broken)
  IN  {<<i>>, <<u>>, <<File(Broken), i>>, <<u, BadLib>>}

MCLines == PullLines \cup MergeLines \cup ErrorLines
=============================================================================
