------------------------- MODULE MCMigrationUpdate -------------------------
(***************************************************************************)
(* Instances of MigrationUpdate.  Two objects, Account and Case, refer to  *)
(* each other: Account.MainCase -> Case closes the circle and travels only *)
(* in the backward passes, Account.Parent is a self reference,             *)
(* Case.Account -> Account is a create-only (master-detail) lookup carried *)
(* by the forward pass, and Case.Rel -> Account may be updated too.        *)
(***************************************************************************)
EXTENDS MigrationRefinement, TLC

CONSTANTS
  Account, Case,
  Parent, MainCase, CaseAccount, CaseRel,
  a1, a2, c1,
  old, new,
  t1, t2, n1, n2, n3,
  Dup,             \* a1 and a2 share one external id
  AccountOp, CaseOp

MCTaskOrder == <<Account, Case>>
MCReversedOrder == <<Case, Account>>
NoTasks == <<>>
MCOp == (Account :> AccountOp) @@ (Case :> CaseOp)
MCFieldObject == (Parent :> Account) @@ (MainCase :> Account) @@ (CaseAccount :> Case) @@ (CaseRel :> Case)
MCParentObject == (Parent :> Account) @@ (MainCase :> Case) @@ (CaseAccount :> Account) @@ (CaseRel :> Account)
MCKeyOf == (a1 :> "k1") @@ (a2 :> IF Dup THEN "k1" ELSE "k2") @@ (c1 :> "kc")
MCKeyObject == ("k1" :> Account) @@ ("k2" :> Account) @@ ("kc" :> Case)
MCRank == (a1 :> 1) @@ (a2 :> 2) @@ (c1 :> 3)
\* a1's parent account is a2 and its main case c1; a2's main case is not among the
\* retrieved records; c1 belongs to a1 and is related to a2.
MCRef == [s \in Sources |->
  CASE s = a1 -> [f \in Fields |-> CASE f = Parent -> a2 [] f = MainCase -> c1 [] OTHER -> None]
    [] s = a2 -> [f \in Fields |-> IF f = MainCase THEN Dangling ELSE None]
    [] s = c1 -> [f \in Fields |-> CASE f = CaseAccount -> a1 [] f = CaseRel -> a2 [] OTHER -> None]]
MCVal == [s \in Sources |-> new]
KeepAll == [m \in {"forwards", "backwards"} |-> Sources]
\* A target filter against a2's main case: the field is not among those the forward
\* pass clones, so everything passes there, and a2 fails afterwards.
KeepByMainCase == [m \in {"forwards", "backwards"} |-> IF m = "forwards" THEN Sources ELSE {a1, c1}]

\* Orgs: empty; the account of a1 with stale fields; the accounts of a1 (up to
\* date) and a2 with a wrong parent on a1; the account and the case of a1.
Blank == [key |-> "k1", val |-> old, look |-> NoLookups]
Row(key, v) == [key |-> key, val |-> v, look |-> NoLookups]
OrgOf(r1, r2) == [t \in TargetIds |-> IF t = t1 THEN r1 ELSE IF t = t2 THEN r2 ELSE Blank]
EmptyOrg == [live |-> {}, org |-> OrgOf(Blank, Blank)]
StaleAccount == [live |-> {t1}, org |-> OrgOf(Blank, Blank)]
MisparentedAccounts ==
  [live |-> {t1, t2},
   org |-> OrgOf([Row("k1", new) EXCEPT !.look[Parent] = t1], Row("k2", old))]
AccountAndCase ==
  [live |-> {t1, t2},
   org |-> OrgOf([Row("k1", old) EXCEPT !.look[MainCase] = t2],
                 [Row("kc", new) EXCEPT !.look[CaseAccount] = t1])]
MCInitialOrg == {EmptyOrg, StaleAccount, MisparentedAccounts, AccountAndCase}

\* What the theorems about duplicates, copies and reruns assume holds of the upserts.
ASSUME UniqueInstance == ~Dup => UniqueKeys /\ OnlyOnce

NewIds == Permutations({n1, n2, n3})
=============================================================================
