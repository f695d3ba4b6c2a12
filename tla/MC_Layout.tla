----------------------------- MODULE MC_Layout -----------------------------
(***************************************************************************)
(* Programs of two units for model checking Layout: the pairs of variables *)
(* one unit can have, against a second unit that pushes them off their     *)
(* natural positions.                                                      *)
(***************************************************************************)
EXTENDS Layout

Decl(nm, link, shape, n, bytes, init, align) ==
  [name |-> nm, link |-> link, shape |-> shape, n |-> n, bytes |-> bytes,
   init |-> init, align |-> align, custom |-> FALSE]
Custom(d) == [d EXCEPT !.custom = TRUE]

(* What a variable can be: shapes with their initializers.                 *)
Forms(nm, aligns) ==
  {Decl(nm, l, "word", 1, 8, i, a) : l \in {"static", "plain"}, i \in {"none", "num"}, a \in aligns}
    \cup {Decl(nm, l, "wide", 1, 16, i, a) : l \in {"weak", "plain"}, i \in {"none", "num", "data"}, a \in aligns}
    \cup {Decl(nm, l, "array", 3, 8, i, a) : l \in {"static", "plain"}, i \in {"none", "data"}, a \in aligns}
    \cup {Decl(nm, l, "struct", 1, 12, i, a) : l \in {"static", "plain"}, i \in {"none", "data"}, a \in aligns}

(* Variables whose slot is smaller than what the program reaches.          *)
SmallForms(nm) ==
  {Decl(nm, "plain", "structArray", 2, 24, "none", 0),
   Decl(nm, "staticLocal", "wide", 1, 16, "num", 0),
   Decl(nm, "staticLocal", "struct", 1, 24, "none", 0)}

Unit(text, ro, gs) == [text |-> text, rodata |-> ro, globals |-> gs]

(* The second unit has an odd amount of everything, text that ends within  *)
(* a header's size of a page boundary, and tentative                       *)
(* definitions of name 2 (which the first unit may define too) and 5.      *)
Second(d) ==
  Unit(1000, 13, <<Decl(3, "extern", "word", 1, 8, "none", 0), d,
                Decl(5, "plain", "array", 1, 8, "none", 32),
                Decl(2, "plain", "array", 5, 8, "none", 0)>>)

MCPrograms ==
  {<<Unit(5, 3, <<a, b>>), Second(c)>> :
     a \in Forms(1, {0, 4}) \cup {Custom(d) : d \in Forms(1, {0})}, b \in Forms(2, {0, 16}),
     c \in {Decl(4, "static", "word", 1, 8, "num", 0), Decl(4, "static", "wide", 1, 16, "none", 0),
            Custom(Decl(4, "static", "word", 1, 8, "num", 0))}}

(* Programs with undersized slots.                                         *)
SmallPrograms ==
  {<<Unit(5, 3, <<a, b>>), Second(b)>> : a \in SmallForms(1), b \in Forms(4, {0})}
=============================================================================
