---------------------- MODULE GlobalNameDisambAbstract ----------------------
(***************************************************************************)
(* What global name disambiguation promises (design, section 4.6), in one *)
(* step: when the style enables disambiguate-add-givenname with a rule    *)
(* other than ByCite, every DisambName maps to the first of its expansion *)
(* variants whose edge no other name's matcher accepts, or to its         *)
(* original data when no variant is unique; otherwise the result is       *)
(* empty.  NoData marks a name absent from the result map.                *)
(***************************************************************************)
EXTENDS NameMatcher

CONSTANTS DisambNames, NoData

VARIABLES rule, dagn, data, results

(* The matchers of every DisambName of the document. *)
Matchers == [dn \in DisambNames |-> FromDisambName(data[dn], rule)]

(* The least expansion of d that is unambiguous, or d itself. *)
Disambiguated(d) ==
    LET vs == Variants(d, rule)
        ok == {k \in DOMAIN vs : ~IsAmbiguous(Matchers, SingleName(vs[k]))}
    IN IF ok = {} THEN d ELSE vs[Min(ok)]

Empty == [dn \in DisambNames |-> NoData]

Init == results = Empty

Next ==
    /\ results = Empty
    /\ dagn /\ rule # "ByCite"
    /\ results' = [dn \in DisambNames |-> Disambiguated(data[dn])]
    /\ UNCHANGED <<rule, dagn, data>>

Spec == Init /\ [][Next]_<<rule, dagn, data, results>>

=============================================================================
