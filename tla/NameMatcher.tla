---------------------------- MODULE NameMatcher ----------------------------
(***************************************************************************)
(* Rendering one person name to an edge, and the NameVariantMatcher of     *)
(* citeproc-proc/src/disamb/names.rs: the edges a DisambName can render    *)
(* to under every expansion its iterator allows, and the ambiguity test    *)
(* of global name disambiguation.  Pure operators.                         *)
(*                                                                         *)
(* A person name is a record [family, initial, given]; a DisambNameData    *)
(* is [ref, value, primary, el] (the name variable is left out: one        *)
(* variable is modelled).  An edge is the interned rendered string,        *)
(* represented by the sequence of name parts it shows: interning maps      *)
(* equal strings to equal edges and distinct strings to distinct edges.    *)
(***************************************************************************)
EXTENDS NameDisambIter, SequencesExt

(* DisambNameData::single_name and single_name_edge: a runner with bump  *)
(* 0 renders the value with render_person_name, output_in_context and     *)
(* db.edge intern it.  render_person_name is outside this repository's    *)
(* sources and is modelled from the design (4.4): the short form shows    *)
(* the family name; the long form shows the initial when initialize is on *)
(* and initialize-with is set, and the full given name otherwise.  The    *)
(* primary flag (!self.primary) only selects name-as-sort-order           *)
(* inversion, which does not change which parts show.                     *)
SingleName(d) ==
    CASE d.el.form = "short" -> <<d.value.family>>
      [] d.el.initialize /\ d.el.initialize_with ->
            <<d.value.initial, d.value.family>>
      [] OTHER -> <<d.value.given, d.value.family>>

(* The data after each prefix of the passes the iterator yields: the      *)
(* original, then one entry per apply_pass.                               *)
Variants(d, rule) ==
    LET ps == PassesFrom(DisambIter(d, rule), IterFuel)
    IN [k \in 1..Len(ps) + 1 |->
          [d EXCEPT !.el = FoldLeft(ApplyPass, d.el, SubSeq(ps, 1, k - 1))]]

(* A plausible bug in from_disamb_name: the original edge is not pushed   *)
(* before the expansion loop.                                             *)
FromDisambNameNoOriginal(d, rule) ==
    LET vs == Variants(d, rule)
    IN [k \in 1..Len(vs) - 1 |-> SingleName(vs[k + 1])]

(* NameVariantMatcher::from_disamb_name: the original edge, then the edge *)
(* after each pass of a fresh iterator.                                   *)
FromDisambName(d, rule) ==
    LET vs == Variants(d, rule)
    IN [k \in 1..Len(vs) |-> SingleName(vs[k])]

(* NameVariantMatcher::accepts *)
Accepts(m, e) == Contains(m, e)

(* A plausible bug in is_ambiguous: the name's own matcher is not         *)
(* discounted, so one acceptor already counts as ambiguous.               *)
IsAmbiguousOwnCounts(matchers, e) ==
    \E dn \in DOMAIN matchers : Accepts(matchers[dn], e)

(* The is_ambiguous closure of disambiguated_person_names: more than one  *)
(* matcher accepts the edge.                                              *)
IsAmbiguous(matchers, e) ==
    Cardinality({dn \in DOMAIN matchers : Accepts(matchers[dn], e)}) > 1

=============================================================================
