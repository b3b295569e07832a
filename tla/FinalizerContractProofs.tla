------------------------ MODULE FinalizerContractProofs ------------------------
(***************************************************************************)
(* What the finalizer contract is worth, for every set of owners: whoever  *)
(* implements it leaves nothing behind.                                    *)
(***************************************************************************)
EXTENDS FinalizerContract, TLAPS

ContractTypeOK ==
    /\ held \in [Owners -> BOOLEAN]
    /\ outside \in [Owners -> BOOLEAN]

\* The contract's promise: an outside object always has an owner that still
\* carries the finalizer, so its deletion cannot have gone through.
THEOREM ContractLeavesNothing == ContractSpec => []NothingLeftBehind
<1>1. ContractInit => ContractTypeOK /\ NothingLeftBehind
  BY DEF ContractInit, ContractTypeOK, NothingLeftBehind
<1>2. ContractTypeOK /\ NothingLeftBehind /\ [ContractNext]_contractVars
        => ContractTypeOK' /\ NothingLeftBehind'
  <2> SUFFICES ASSUME ContractTypeOK, NothingLeftBehind, [ContractNext]_contractVars
               PROVE  ContractTypeOK' /\ NothingLeftBehind'
    OBVIOUS
  <2>1. ASSUME NEW o \in Owners, Acquire(o) PROVE ContractTypeOK' /\ NothingLeftBehind'
    BY <2>1 DEF Acquire, ContractTypeOK, NothingLeftBehind
  <2>2. ASSUME NEW o \in Owners, Provision(o) PROVE ContractTypeOK' /\ NothingLeftBehind'
    BY <2>2 DEF Provision, ContractTypeOK, NothingLeftBehind
  <2>3. ASSUME NEW o \in Owners, Withdraw(o) PROVE ContractTypeOK' /\ NothingLeftBehind'
    BY <2>3 DEF Withdraw, ContractTypeOK, NothingLeftBehind
  <2>4. ASSUME NEW o \in Owners, Release(o) PROVE ContractTypeOK' /\ NothingLeftBehind'
    BY <2>4 DEF Release, ContractTypeOK, NothingLeftBehind
  <2>5. CASE UNCHANGED contractVars
    BY <2>5 DEF contractVars, ContractTypeOK, NothingLeftBehind
  <2>6. QED
    BY <2>1, <2>2, <2>3, <2>4, <2>5 DEF ContractNext
<1>3. QED
  BY <1>1, <1>2, PTL DEF ContractSpec

=============================================================================
