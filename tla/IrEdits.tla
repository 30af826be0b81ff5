------------------------------- MODULE IrEdits -------------------------------
(***************************************************************************)
(* The edits a cite's IR undergoes after it is built: suppress_names and  *)
(* suppress_year (from the year-style collapse of group_and_collapse),    *)
(* split_first_field (second-field-align) and recompute_group_vars (after *)
(* every mutation, design 4.8), applied to the root in any order, up to   *)
(* MaxEdits of them.  The initial trees are the MC module's Trees.        *)
(***************************************************************************)
EXTENDS IrTree

CONSTANTS
    Trees,     \* the cite IRs to start from (root Seqs)
    MaxEdits   \* edits per behaviour

VARIABLES ir, edits

vars == <<ir, edits>>

Kinds == {"Rendered", "Name", "Cond", "YearSuffix", "Seq"}

RECURSIVE IsTree(_)
IsTree(t) ==
    /\ t.k \in Kinds
    /\ t.gv \in GVs
    /\ t.k = "Rendered" => t.ed = NoEd \/ t.ed.kind \in {"Output", "Year", "YearSuffix", "CitationNumber"}
    /\ t.k \in {"Name", "Cond"} => Len(t.kids) = 1
    /\ t.k = "YearSuffix" => t.hook \in {"Explicit", "Plain"} /\ Len(t.kids) <= 1
    /\ t.k = "Seq" => t.dropped \in GVs \cup {NoGv} /\ t.display \in {"none", "LeftMargin", "RightInline"}
    /\ \A i \in DOMAIN t.kids : IsTree(t.kids[i])

TypeOK == IsTree(ir) /\ ir.k = "Seq" /\ edits \in 0..MaxEdits

Init == ir \in Trees /\ edits = 0

(* One edit of the cite's tree, counted against MaxEdits. *)
Edit(f) == edits < MaxEdits /\ ir' = f /\ edits' = edits + 1

DoSuppressNames == Edit(SuppressNames(ir))
DoSuppressYear == Edit(SuppressYear(ir))
DoSplitFirstField == Edit(SplitFirstField(ir))
DoRecompute == Edit(RecomputeGroupVars(ir))

Next == DoSuppressNames \/ DoSuppressYear \/ DoSplitFirstField \/ DoRecompute

Spec == Init /\ [][Next]_vars

(***************************************************************************)
(* Properties                                                              *)
(***************************************************************************)

RECURSIVE PathsBy(_, _, _)
(* The paths of the nodes reached from t through nodes of the kinds Via. *)
PathsBy(t, path, Via) ==
    {path} \cup IF t.k \in Via
                  THEN UNION {PathsBy(t.kids[i], Append(path, i), Via) : i \in DOMAIN t.kids}
                  ELSE {}

AllPaths(t) == PathsBy(t, <<>>, Kinds)

(* Group-variable recomputation settles the whole Seq spine: after         *)
(* recompute_group_vars on the root, however stale the stored group vars  *)
(* were, every Seq reached through Seqs whose dropped_gv is set stores    *)
(* exactly the overall group vars of its (recomputed) children.           *)
RecomputeSettles ==
    [][DoRecompute =>
         \A p \in PathsBy(ir', <<>>, {"Seq"}) \ {<<>>} :
            LET s == NodeAt(ir', p)
            IN s.k = "Seq" /\ s.dropped # NoGv => s.gv = OverallGv(s)]_vars

RECURSIVE NamePaths(_, _)
(* The Name blocks in document order, looking through Seqs and           *)
(* ConditionalDisambs.                                                    *)
NamePaths(t, path) ==
    CASE t.k = "Name" -> <<path>>
      [] t.k \in {"Seq", "Cond"} ->
            FlattenSeq([i \in DOMAIN t.kids |-> NamePaths(t.kids[i], Append(path, i))])
      [] OTHER -> <<>>

(* Name suppression for the year collapse: suppress_names blanks the      *)
(* first name block of the cite in document order and leaves every other *)
(* name block as it was.                                                   *)
SuppressNamesFirstOnly ==
    [][DoSuppressNames =>
         LET ns == NamePaths(ir, <<>>)
         IN ns # <<>> =>
              /\ Flatten(NodeAt(ir', ns[1])) = <<>>
              /\ \A j \in 2..Len(ns) : NodeAt(ir', ns[j]) = NodeAt(ir, ns[j])]_vars

(* The year-suffix collapse trades a year for its suffix (design 4.7 and  *)
(* 6): every rendering suppress_year blanks is a year, the first of a     *)
(* two-item date group whose year-suffix hook prints its suffix, and that *)
(* hook prints the same suffix afterwards.  The code decides this from a  *)
(* flag computed over the whole cite (has_explicit_year_suffix, which     *)
(* looks for an Explicit hook with a non-empty ir) and the group vars     *)
(* stored beside the pair's hook, never from the hook's own contents in   *)
(* the explicit case.                                                      *)
YearBlankedForSuffix ==
    [][DoSuppressYear =>
         \A p \in AllPaths(ir) \ {<<>>} :
            NodeAt(ir, p).k = "Rendered" /\ NodeAt(ir', p) # NodeAt(ir, p) =>
               LET q == Front(p)
                   hook == NodeAt(ir, Append(q, 2))
               IN /\ NodeAt(ir, p).ed.kind = "Year"
                  /\ p[Len(p)] = 1 /\ Len(NodeAt(ir, q).kids) = 2
                  /\ hook.k = "YearSuffix" /\ Flatten(hook) # <<>>
                  /\ Flatten(NodeAt(ir', Append(q, 2))) = Flatten(hook)]_vars

(* suppress_year suppresses the first year only (design 4.7: it finds the *)
(* first year-suffix-bearing position): one step blanks at most one       *)
(* rendering.                                                              *)
YearSuppressedOnce ==
    [][DoSuppressYear =>
         Cardinality({p \in AllPaths(ir) : NodeAt(ir, p).k = "Rendered"
                                            /\ NodeAt(ir', p) # NodeAt(ir, p)}) <= 1]_vars

(* The printed text of an output: its tokens without delimiters and      *)
(* formatting tags.                                                        *)
Text(out) == SelectSeq(out, LAMBDA x : x \notin {Delim, Open, Close})

(* Second-field-align moves text, it never drops or reorders it: when the  *)
(* first field and the fields after it both print something,              *)
(* split_first_field leaves the printed text (prefix, fields, suffix) as  *)
(* it was, although it rebuilds the root into a left-margin and a          *)
(* right-inline Seq and moves the affixes into them.  (When one side      *)
(* prints nothing, its Seq flattens to None and the affix moved into it   *)
(* is not printed.)                                                        *)
SplitKeepsText ==
    [][DoSplitFirstField /\ Len(ir.kids) > 1 /\ Flatten(ir.kids[1]) # <<>>
         /\ (\E i \in 2..Len(ir.kids) : Flatten(ir.kids[i]) # <<>>) =>
         Text(Flatten(ir')) = Text(Flatten(ir))]_vars

(* A tree without sentinels: no year-suffix hook and only Output and Year *)
(* renderings.                                                             *)
NoSentinels(t) ==
    \A p \in AllPaths(t) :
       LET n == NodeAt(t, p)
       IN /\ n.k # "YearSuffix"
          /\ n.k = "Rendered" /\ n.ed # NoEd => n.ed.kind \in {"Output", "Year"}

(* Edge-stream fidelity (design 8.8): for an IR without sentinels, the    *)
(* edge stream the matcher sees spells exactly what flatten prints.       *)
EdgeStreamFidelity == NoSentinels(ir) => ToEdgeStream(ir) = Flatten(ir)

(* is_empty as the design (4.7) and its own comment define it: true      *)
(* iff Rendered(None), or a container with no children.                   *)
IsEmptyAsDesigned ==
    \A p \in AllPaths(ir) :
       LET n == NodeAt(ir, p)
       IN IsEmpty(n) = IsEmptyContent(n)

=============================================================================
