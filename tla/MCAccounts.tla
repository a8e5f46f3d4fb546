----------------------------- MODULE MCAccounts -----------------------------
(***************************************************************************)
(* The user's tokens and the user's billing, for model checking.  They     *)
(* share nothing: each behaviour runs one of them.                         *)
(***************************************************************************)
EXTENDS Tokens, Billing, TLC

VARIABLE part  \* what runs

DaysDef == "trial" :> 1 @@ "monthly" :> 1 @@ "yearly" :> 2
PlanDef == "first" :> "monthly" @@ "second" :> "yearly"

Symmetry == Permutations(Pairs) \cup Permutations(Callers)
              \cup Permutations(Workers)

AccountsInit ==
  /\ part \in {"tokens", "billing"}
  /\ TokensInit /\ BillingInit

AccountsNext ==
  \/ /\ part = "tokens"
     /\ TokensNext
     /\ UNCHANGED <<part, billingVars>>
  \/ /\ part = "billing"
     /\ BillingNext
     /\ UNCHANGED <<part, tokenVars>>

AccountsSpec == AccountsInit /\ [][AccountsNext]_<<part, tokenVars, billingVars>>
=============================================================================
