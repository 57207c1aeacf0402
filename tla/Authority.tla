------------------------------ MODULE Authority ------------------------------
(***************************************************************************)
(* Who may sign for what in klend: the two-step handovers of the global    *)
(* admin and of a lending market's owner, and the three-step transfer of   *)
(* an obligation, which its owner initiates, the global admin approves and *)
(* the new owner accepts.                                                  *)
(*                                                                         *)
(* Initiating, accepting and aborting a transfer must be the only          *)
(* instruction of their transaction, so each is a step; the admin's        *)
(* approval is signed for what the admin has seen and lands later.  Of a   *)
(* borrow order only its placer and its deadline are kept (FixedTerm has   *)
(* the rest): what it promises must be its placer's to promise.            *)
(***************************************************************************)
EXTENDS Integers

CONSTANTS Key,          \* those who sign
          Nobody,       \* Pubkey::default(), which never signs
          FirstAdmin,   \* the program's upgrade authority
          FirstOwner,   \* signer of init_lending_market
          FirstUser,    \* signer of init_obligation
          Nominees,     \* bound: keys nominated as admin or market owner
          MaxTime       \* bound: time

ASSUME KeyAssumption ==
    /\ Nobody \notin Key /\ Nominees \subseteq Key
    /\ {FirstAdmin, FirstOwner, FirstUser} \subseteq Key
    /\ MaxTime \in Nat

VARIABLES time,
          global_config,   \* admin and pending admin
          market,          \* owner, cached owner, immutable
          obligation,      \* owner, pending owner, state of the transfer
          borrow_order,    \* placer and deadline of the order, if any
          approval,        \* signed approval on its way: signer and named owner
          nominator,       \* history: who nominated the pending admin and the cached owner
          consent          \* history: who offered the obligation, and to whom the
                           \* approval that landed was given

authorityVars == <<time, global_config, market, obligation, borrow_order, approval,
                   nominator, consent>>

NoBorrowOrder == [placer |-> Nobody, until |-> 0]
NoApproval == [signer |-> Nobody, named |-> Nobody]

-----------------------------------------------------------------------------
(* The global admin                                                        *)

init_global_config == [admin |-> FirstAdmin, pending |-> FirstAdmin]

UpdateGlobalConfig(signer, key) ==
    /\ signer = global_config.admin
    /\ global_config' = [global_config EXCEPT !.pending = key]
    /\ nominator' = [nominator EXCEPT !.admin = signer]
    /\ UNCHANGED <<time, market, obligation, borrow_order, approval, consent>>

\* The pending admin stays pending once it is the admin.
UpdateGlobalConfigAdmin(signer) ==
    /\ signer = global_config.pending
    /\ global_config' = [global_config EXCEPT !.admin = signer]
    /\ UNCHANGED <<time, market, obligation, borrow_order, approval, nominator, consent>>

-----------------------------------------------------------------------------
(* The owner of the lending market                                         *)

init_lending_market == [owner |-> FirstOwner, cached |-> Nobody, immutable |-> FALSE]

UpdateOwner(signer, key) ==
    /\ signer = market.owner /\ ~market.immutable
    /\ market' = [market EXCEPT !.cached = key]
    /\ nominator' = [nominator EXCEPT !.owner = signer]
    /\ UNCHANGED <<time, global_config, obligation, borrow_order, approval, consent>>

UpdateImmutableFlag(signer) ==
    /\ signer = market.owner /\ ~market.immutable
    /\ market' = [market EXCEPT !.immutable = TRUE]
    /\ UNCHANGED <<time, global_config, obligation, borrow_order, approval, nominator, consent>>

UpdateLendingMarketOwner(signer) ==
    /\ signer = market.cached /\ ~market.immutable
    /\ market' = [market EXCEPT !.owner = signer]
    /\ UNCHANGED <<time, global_config, obligation, borrow_order, approval, nominator, consent>>

-----------------------------------------------------------------------------
(* The borrow order of the obligation                                      *)

\* The order is still good at the time of its deadline.
clear_if_past_fillable_timestamp(order) ==
    IF order # NoBorrowOrder /\ order.until < time THEN NoBorrowOrder ELSE order

\* The owner places, replaces or (until = 0) removes the order; the transfer
\* of the obligation does not keep it from doing so.
SetBorrowOrder(signer, until) ==
    /\ signer = obligation.owner
    /\ \/ /\ until >= time
          /\ borrow_order' = [placer |-> signer, until |-> until]
       \/ /\ until = 0 /\ borrow_order # NoBorrowOrder
          /\ borrow_order' = NoBorrowOrder
    /\ UNCHANGED <<time, global_config, market, obligation, approval, nominator, consent>>

\* Anyone fills the rest of the order before its deadline has passed.
FillBorrowOrder ==
    /\ borrow_order # NoBorrowOrder /\ time <= borrow_order.until
    /\ borrow_order' = NoBorrowOrder
    /\ UNCHANGED <<time, global_config, market, obligation, approval, nominator, consent>>

-----------------------------------------------------------------------------
(* The transfer of the obligation                                          *)

init_obligation == [owner |-> FirstUser, pending |-> Nobody, state |-> "None"]

is_ownership_transfer_in_progress == obligation.state # "None"
is_ownership_transfer_in_initiated_state == obligation.state = "Initiated"
is_ownership_transfer_approved == obligation.state = "Approved"

\* Faulty variant: any order will do.
any_borrow_orders_check(order) == TRUE

obligation_has_no_active_borrow_orders_check(order) == order = NoBorrowOrder

InitiateObligationOwnershipTransfer(signer, new_owner) ==
    LET order == clear_if_past_fillable_timestamp(borrow_order) IN
    /\ signer = obligation.owner
    /\ ~is_ownership_transfer_in_progress
    /\ obligation_has_no_active_borrow_orders_check(order)
    /\ new_owner \notin {Nobody, obligation.owner}
    /\ obligation' = [obligation EXCEPT !.state = "Initiated", !.pending = new_owner]
    /\ borrow_order' = order
    /\ consent' = [consent EXCEPT !.offered_by = signer]
    /\ UNCHANGED <<time, global_config, market, approval, nominator>>

\* The admin signs an approval for the new owner the obligation names now ...
SignApproval(signer) ==
    /\ signer = global_config.admin
    /\ is_ownership_transfer_in_initiated_state
    /\ approval' = [signer |-> signer, named |-> obligation.pending]
    /\ UNCHANGED <<time, global_config, market, obligation, borrow_order, nominator, consent>>

\* Faulty variant: whoever the obligation names is approved.
approve_constraints_unnamed == approval.signer = global_config.admin

\* ... which takes effect when it lands, if the signer is still the admin and
\* the obligation still names that owner.
approve_constraints ==
    /\ approval.signer = global_config.admin
    /\ approval.named = obligation.pending

ApproveObligationOwnershipTransfer ==
    LET order == clear_if_past_fillable_timestamp(borrow_order) IN
    /\ approval # NoApproval
    /\ approve_constraints
    /\ is_ownership_transfer_in_initiated_state
    /\ obligation_has_no_active_borrow_orders_check(order)
    /\ obligation' = [obligation EXCEPT !.state = "Approved"]
    /\ borrow_order' = order
    /\ approval' = NoApproval
    /\ consent' = [consent EXCEPT !.approved_for = approval.named]
    /\ UNCHANGED <<time, global_config, market, nominator>>

\* Refused, or never included: the signed approval is gone.
LoseApproval ==
    /\ approval # NoApproval
    /\ approval' = NoApproval
    /\ UNCHANGED <<time, global_config, market, obligation, borrow_order, nominator, consent>>

AcceptObligationOwnership(signer) ==
    LET order == clear_if_past_fillable_timestamp(borrow_order) IN
    /\ signer = obligation.pending
    /\ obligation_has_no_active_borrow_orders_check(order)
    /\ is_ownership_transfer_approved
    /\ obligation' = [owner |-> obligation.pending, pending |-> Nobody, state |-> "None"]
    /\ borrow_order' = order
    /\ UNCHANGED <<time, global_config, market, approval, nominator, consent>>

\* Only before the approval: afterwards it is for the new owner to accept.
AbortObligationOwnershipTransfer(signer) ==
    /\ signer = obligation.owner
    /\ is_ownership_transfer_in_initiated_state
    /\ obligation' = [obligation EXCEPT !.pending = Nobody, !.state = "None"]
    /\ UNCHANGED <<time, global_config, market, borrow_order, approval, nominator, consent>>

-----------------------------------------------------------------------------
Clock ==
    /\ time < MaxTime /\ time' = time + 1
    /\ UNCHANGED <<global_config, market, obligation, borrow_order, approval, nominator, consent>>

InitAuthority ==
    /\ time = 1
    /\ global_config = init_global_config
    /\ market = init_lending_market
    /\ obligation = init_obligation
    /\ borrow_order = NoBorrowOrder
    /\ approval = NoApproval
    /\ nominator = [admin |-> FirstAdmin, owner |-> FirstOwner]
    /\ consent = [offered_by |-> Nobody, approved_for |-> Nobody]

NextAuthority ==
    \/ Clock \/ FillBorrowOrder
    \/ ApproveObligationOwnershipTransfer \/ LoseApproval
    \/ \E signer \in Key :
          \/ \E key \in Nominees : UpdateGlobalConfig(signer, key) \/ UpdateOwner(signer, key)
          \/ UpdateGlobalConfigAdmin(signer)
          \/ UpdateLendingMarketOwner(signer)
          \/ UpdateImmutableFlag(signer)
          \/ \E until \in 0..MaxTime : SetBorrowOrder(signer, until)
          \/ \E key \in Key \cup {Nobody} : InitiateObligationOwnershipTransfer(signer, key)
          \/ SignApproval(signer)
          \/ AcceptObligationOwnership(signer)
          \/ AbortObligationOwnershipTransfer(signer)

SpecAuthority == InitAuthority /\ [][NextAuthority]_authorityVars

-----------------------------------------------------------------------------
(* Properties                                                              *)

\* Every key field holds a key (or nobody), every state one of the enum's.
AuthorityTypeOK ==
    /\ time \in Nat
    /\ global_config \in [admin : Key, pending : Key]
    /\ market \in [owner : Key, cached : Key \cup {Nobody}, immutable : BOOLEAN]
    /\ obligation \in [owner : Key, pending : Key \cup {Nobody},
                       state : {"None", "Initiated", "Approved"}]
    /\ borrow_order \in [placer : Key \cup {Nobody}, until : Nat]
    /\ approval \in [signer : Key \cup {Nobody}, named : Key \cup {Nobody}]
    /\ nominator \in [admin : Key, owner : Key]
    /\ consent \in [offered_by : Key \cup {Nobody}, approved_for : Key \cup {Nobody}]

\* Whoever could take over the program or the market with one signature was
\* nominated by the present admin or market owner: a nomination by a former
\* holder never outlives its successor's arrival.
NomineeOfHolder ==
    /\ global_config.pending = global_config.admin \/ nominator.admin = global_config.admin
    /\ market.cached \in {Nobody, market.owner} \/ nominator.owner = market.owner

\* An approved transfer goes to the owner the admin's signature named, and was
\* offered by the present owner, however many offers were aborted and made
\* again while the approval was on its way.
TransferAgreed ==
    /\ is_ownership_transfer_approved => consent.approved_for = obligation.pending
    /\ is_ownership_transfer_in_progress =>
          consent.offered_by = obligation.owner /\ obligation.pending # obligation.owner

\* A borrow order that anyone may fill was placed by the present owner, who
\* will owe what it borrows, although the owner may place orders while a
\* transfer is under way.
OrderOfOwner == borrow_order # NoBorrowOrder => borrow_order.placer = obligation.owner

==============================================================================
