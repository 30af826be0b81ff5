------------------------------ MODULE MCIrEdits ------------------------------
(***************************************************************************)
(* Cite IRs for IrEdits: a root Seq (the layout, no dropped_gv) of one to  *)
(* three blocks, each a shape the cite builder produces: a plain output, a *)
(* name block, a date group <year, year-suffix hook> (alone or inside a    *)
(* ConditionalDisamb), a group with affixes around a name block, and a     *)
(* nest of two groups whose stored group vars are stale.                   *)
(***************************************************************************)
EXTENDS IrEdits

Ed(kind, tok) == [kind |-> kind, tok |-> tok]

NoFmt == [pre |-> FALSE, suf |-> FALSE, delim |-> FALSE, fmt |-> FALSE, dropped |-> NoGv]
GroupFmt == [NoFmt EXCEPT !.dropped = "Plain"]
AffixGroup == [GroupFmt EXCEPT !.pre = TRUE, !.suf = TRUE]
LayoutFmts == {NoFmt, [NoFmt EXCEPT !.pre = TRUE, !.suf = TRUE, !.delim = TRUE, !.fmt = TRUE]}

Out == Rendered(Ed("Output", "t"), "Important")
Nm == NameNode(Rendered(Ed("Output", "n"), "Important"), "Important")

(* A date group: the year, then a year-suffix hook: a fresh one as        *)
(* IR::year_suffix builds it, or one with its suffix rendered, stored as  *)
(* Important or Unresolved.                                                *)
YsFilled(hook, gv) ==
    YearSuffixNode(hook, <<Rendered(Ed("YearSuffix", "a"), "Important")>>, gv, gv)
DatePair(h) == SeqNode(<<Rendered(Ed("Year", "y"), "Important"), h>>, GroupFmt, "Important")
Hooks == {YsFilled("Explicit", "Unresolved"), YsFilled("Plain", "Important"),
          YearSuffixIr("Plain"), YearSuffixIr("Explicit")}

(* Two nested groups whose stored group vars say Missing although the     *)
(* name inside is Important.                                               *)
StaleNest == SeqNode(<<SeqNode(<<Nm>>, GroupFmt, "Missing")>>, GroupFmt, "Missing")

(* The blocks of a cite whose year-suffix hooks are all h: the hooks of  *)
(* one cite belong to one reference and one style, so they are all        *)
(* explicit or all implicit (an explicit year-suffix variable turns the   *)
(* implicit one off), and they are filled together.                       *)
BlocksWith(h) ==
    {Out, Nm, SeqNode(<<Nm>>, AffixGroup, "Important"), StaleNest,
     DatePair(h), Cond(DatePair(h), "Important", "Important")}

MCTrees ==
    {SeqNode(ks, f, "Important") :
        ks \in UNION {SeqOf(BlocksWith(h), 3) : h \in Hooks} \ {<<>>}, f \in LayoutFmts}

MCMaxEdits == 3

=============================================================================
