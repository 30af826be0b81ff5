---------------------------- MODULE MCRefIrNames ----------------------------
(* One reference's names: one to three persons of one family (two share   *)
(* an initial), with or without a literal (institutional) name, under     *)
(* every name element; et-al off, or on from two names showing one.      *)
EXTENDS RefIrNames

Person(given, initial, primary, el) ==
    [kind |-> "Person",
     d |-> [ref |-> "r1", primary |-> primary, el |-> el,
            value |-> [family |-> "Smith", initial |-> initial, given |-> given]]]

Lit == [kind |-> "Literal", text |-> "Acme"]

ListsFor(el) ==
    LET p1 == Person("John", "J", TRUE, el)
        p2 == Person("Jane", "J", FALSE, el)
        p3 == Person("Adam", "A", FALSE, el)
    IN {<<p1>>, <<Lit>>, <<p1, p2>>, <<p1, Lit>>, <<Lit, p1, p2>>, <<p1, p2, p3>>}

(* One names variable (author alone). *)
MCOneVar == {<<ts>> : ts \in UNION {ListsFor(el) : el \in NameEls}}

(* Two names variables of one element (author, then editor), the author  *)
(* a single person, the editor one or two; the long form with initials.  *)
MCTwoVars ==
    LET el == [form |-> "long", initialize |-> TRUE, initialize_with |-> TRUE]
    IN {<<<<Person("John", "J", TRUE, el)>>, ed>> :
          ed \in {<<Person("Jane", "J", FALSE, el)>>,
                  <<Person("Jane", "J", FALSE, el), Person("Adam", "A", FALSE, el)>>}}

MCEtAls == {[min |-> 0, use_first |-> 0], [min |-> 2, use_first |-> 1]}

MCMaxBump == 3

=============================================================================
