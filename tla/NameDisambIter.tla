--------------------------- MODULE NameDisambIter ---------------------------
(***************************************************************************)
(* The given-name expansion machinery of                                   *)
(* citeproc-proc/src/disamb/names.rs: the style rule turned into a         *)
(* SingleNameDisambMethod, the SingleNameDisambIter state machine that     *)
(* yields expansion passes, and DisambNameData::apply_pass.  Pure          *)
(* operators only; the modules that run the iterator EXTEND this one.      *)
(*                                                                         *)
(* A NameEl is abstracted to the three fields the iterator and the passes  *)
(* read or write: form ("short" | "long"; the code's unset form is read as *)
(* Long by the iterator), initialize (the code's Option<bool> read as      *)
(* Some(b)) and whether initialize_with is set.                            *)
(***************************************************************************)
EXTENDS Naturals, Sequences

Rules == {"ByCite", "AllNames", "AllNamesWithInitials",
          "PrimaryName", "PrimaryNameWithInitials"}
Methods == {"None", "AddInitials", "AddInitialsThenGivenName"}
States == {"Original", "AddedInitials", "AddedGivenName"}
Forms == {"short", "long"}
NameEls == [form : Forms, initialize : BOOLEAN, initialize_with : BOOLEAN]

\* The two NameDisambPass values, and the two ways next() can end
\* without a pass: None, and the unreachable!() panic.
Passes == {"WithFormLong", "WithInitializeFalse"}
NoPass == "NoPass"
Unreachable == "Unreachable"

Iters == [method : Methods, initialize_with : BOOLEAN,
          name_form : Forms, state : States]

(* SingleNameDisambMethod::from_rule *)
FromRule(rule, is_primary) ==
    CASE rule \in {"ByCite", "AllNames"}       -> "AddInitialsThenGivenName"
      [] rule = "AllNamesWithInitials"         -> "AddInitials"
      [] rule = "PrimaryName" /\ is_primary    -> "AddInitialsThenGivenName"
      [] rule = "PrimaryNameWithInitials" /\ is_primary -> "AddInitials"
      [] OTHER                                 -> "None"

(* SingleNameDisambIter::new: initialize_with is only "on" when the       *)
(* element both has initialize-with and initialize = Some(true).          *)
NewIter(method, el) ==
    [method          |-> method,
     initialize_with |-> el.initialize_with /\ el.initialize,
     name_form       |-> el.form,
     state           |-> "Original"]

(* A plausible bug: the pass and the next state swapped. *)
YieldSwapped(it, p, st) == [out |-> st, iter |-> [it EXCEPT !.state = p]]

(* `self.state = st; Some(p)` *)
Yield(it, p, st) == [out |-> p, iter |-> [it EXCEPT !.state = st]]
(* `None`, state unchanged *)
Stop(it) == [out |-> NoPass, iter |-> it]
(* `unreachable!()` *)
Panic(it) == [out |-> Unreachable, iter |-> it]

(* next(), method AddInitials *)
NextAddInitials(it) ==
    CASE ~it.initialize_with -> Stop(it)
      [] it.state = "Original" /\ it.name_form = "short" ->
            Yield(it, "WithFormLong", "AddedInitials")
      [] it.state = "AddedGivenName" -> Panic(it)
      [] OTHER -> Stop(it)

(* A plausible bug: with initialize-with and a short form the iterator    *)
(* skips WithFormLong and expands the given name at once.                 *)
NextGivenNameInitSkipsLong(it) ==
    CASE it.state \in {"Original", "AddedInitials"} ->
            Yield(it, "WithInitializeFalse", "AddedGivenName")
      [] OTHER -> Stop(it)

(* A plausible bug: the exhausted state yields the given-name pass again. *)
NextGivenNameInitNeverStops(it) ==
    CASE it.state = "Original" /\ it.name_form = "short" ->
            Yield(it, "WithFormLong", "AddedInitials")
      [] OTHER -> Yield(it, "WithInitializeFalse", "AddedGivenName")

(* next(), method AddInitialsThenGivenName, initialize-with on *)
NextGivenNameInit(it) ==
    CASE it.state = "Original" /\ it.name_form = "short" ->
            Yield(it, "WithFormLong", "AddedInitials")
      [] it.state \in {"Original", "AddedInitials"} ->
            Yield(it, "WithInitializeFalse", "AddedGivenName")
      [] OTHER -> Stop(it)

(* A plausible bug: the short-form arm records AddedInitials, a state     *)
(* this arm treats as unreachable.                                        *)
NextGivenNameWrongState(it) ==
    CASE it.state = "Original" /\ it.name_form = "short" ->
            Yield(it, "WithFormLong", "AddedInitials")
      [] it.state = "Original" ->
            [out |-> NoPass, iter |-> [it EXCEPT !.state = "AddedGivenName"]]
      [] it.state = "AddedInitials" -> Panic(it)
      [] OTHER -> Stop(it)

(* next(), method AddInitialsThenGivenName, initialize-with off: the     *)
(* Original state always moves to AddedGivenName, yielding WithFormLong  *)
(* only for a short form.                                                 *)
NextGivenName(it) ==
    CASE it.state = "Original" /\ it.name_form = "short" ->
            Yield(it, "WithFormLong", "AddedGivenName")
      [] it.state = "Original" ->
            [out |-> NoPass, iter |-> [it EXCEPT !.state = "AddedGivenName"]]
      [] it.state = "AddedInitials" -> Panic(it)
      [] OTHER -> Stop(it)

(* <Iterator for SingleNameDisambIter>::next: the pass yielded (or NoPass *)
(* or the unreachable!() panic) with the iterator's new state.            *)
IterNext(it) ==
    CASE it.method = "None"        -> Stop(it)
      [] it.method = "AddInitials" -> NextAddInitials(it)
      [] it.initialize_with        -> NextGivenNameInit(it)
      [] OTHER                     -> NextGivenName(it)

(* DisambNameData::apply_pass, on the name element.                       *)
ApplyPass(el, pass) ==
    IF pass = "WithFormLong" THEN [el EXCEPT !.form = "long"]
                             ELSE [el EXCEPT !.initialize = FALSE]

(* DisambNameData::disamb_iter *)
DisambIter(d, rule) == NewIter(FromRule(rule, d.primary), d.el)

(* Bound on the passes any loop draws from one iterator: the code's       *)
(* iterator yields at most two, so three draws always reach its end.      *)
IterFuel == 3

(* The passes a fresh iterator yields, in order: the `for pass in iter`   *)
(* loops of NameVariantMatcher::from_disamb_name and                      *)
(* add_expanded_name_to_graph.  `fuel` bounds the recursion.              *)
RECURSIVE PassesFrom(_, _)
PassesFrom(it, fuel) ==
    LET r == IterNext(it)
    IN IF fuel = 0 \/ r.out \notin Passes THEN <<>>
       ELSE <<r.out>> \o PassesFrom(r.iter, fuel - 1)

=============================================================================
