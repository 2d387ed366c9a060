----------------------------- MODULE Substitution -----------------------------
(***************************************************************************)
(* What the builder promises about placeholders (include/ir_builder.h:     *)
(* "At finalize time, every use of the placeholder is rewritten to the     *)
(* real value"): the uses of a function are the values its author gave;    *)
(* a placeholder may be defined, once, as another value; a use is changed  *)
(* to what it finally stands for and to nothing else, and only in the      *)
(* function that is being built.                                           *)
(***************************************************************************)
EXTENDS Integers, Sequences

CONSTANTS Values, Placeholders, MaxPlaceholders

VARIABLES
  uses,     \* per function, the value each of its operands stands for, by place
  meaning   \* placeholder -> value, of the function being built

Undefined == [is |-> "undefined", n |-> 0]

Init == uses = <<>> /\ meaning = [p \in Placeholders |-> Undefined]

Stands(v) == [is |-> "vreg", n |-> v]
IsDefined(m, x) == x.is = "vreg" /\ x.n \in Placeholders /\ m[x.n] # Undefined

(* What value x finally stands for under m. *)
Final(m, x) ==
  LET after[k \in 0..MaxPlaceholders] ==
        IF k = 0 THEN x
        ELSE IF IsDefined(m, after[k-1]) THEN m[after[k-1].n] ELSE after[k-1]
  IN  after[MaxPlaceholders]

Begin ==
  /\ uses' = Append(uses, <<>>)
  /\ meaning' = [p \in Placeholders |-> Undefined]

Give ==
  /\ uses # <<>> /\ UNCHANGED meaning
  /\ LET f   == Len(uses)
         old == uses[f]
         new == uses'[f]
     IN  /\ DOMAIN old \subseteq DOMAIN new
         /\ \A i \in DOMAIN new : new[i] \in Values /\ (i \in DOMAIN old => new[i] = old[i])
         /\ uses' = [uses EXCEPT ![f] = new]

Define ==
  /\ UNCHANGED uses
  /\ \E p \in Placeholders, x \in Values :
       /\ meaning[p] = Undefined
       /\ Final(meaning, x) # Stands(p)
       /\ meaning' = [meaning EXCEPT ![p] = x]

Rewrite ==
  /\ uses # <<>> /\ UNCHANGED meaning
  /\ LET f == Len(uses) IN
       uses' = [uses EXCEPT ![f] = [i \in DOMAIN @ |-> Final(meaning, @[i])]]

Next == Give \/ Define \/ Rewrite \/ Begin

Spec == Init /\ [][Next]_<<uses, meaning>>
=============================================================================
