--------------------------- MODULE RmNamesProofs ---------------------------
(***************************************************************************)
(* The namespace of RmNames for any number of slots, names and range       *)
(* sizes.  The inductive invariant IInv adds to the safety properties what *)
(* keeps them true: every issued range lies below the counter, a table     *)
(* entry is an issued lease of its own slot, and only held entries are     *)
(* retained.                                                               *)
(***************************************************************************)
EXTENDS RmNames, TLAPS

(* Every range ever issued ends at or below next_object, every client name *)
(* lies below next_client.                                                 *)
Burned ==
    /\ \A a \in issued \cup issuedKids : a.count >= 1 /\ a.first + a.count <= next_object
    /\ \A lease \in issued : lease.client < next_client

(* Table entries are issued leases, filed under their own slot; children   *)
(* belong to issued roots.                                                 *)
Filed ==
    /\ \A kid \in issuedKids : kid.parent \in issued
    /\ \A s \in ClientSlots :
        /\ entries[s].lease # NoLease => entries[s].lease \in issued /\ entries[s].lease.slot = s
        /\ entries[s].retained => entries[s].lease # NoLease
    /\ \A p \in Places :
        /\ children[p].lease # NoKid => children[p].lease \in issuedKids /\ children[p].lease.place = p
        /\ children[p].retained => children[p].lease # NoKid

(* Retired leases are in no table. *)
Gone ==
    /\ \A lease \in issued \cap retired : entries[lease.slot].lease # lease
    /\ \A kid \in issuedKids \cap retired : children[kid.place].lease # kid

IInv == TypeOK /\ Burned /\ Filed /\ Gone /\ NamesNeverReissued /\ NoOrphans

(* The initial ledger satisfies the inductive invariant. *)
LEMMA InitIInv == Init => IInv
<1> SUFFICES ASSUME Init PROVE IInv
  OBVIOUS
<1>1. NoLease \in Leases
  BY NamesAssumption DEF NoLease, Leases, ClientSlots
<1>2. TypeOK
  <2>1. entries \in [ClientSlots -> [lease : Leases, retained : BOOLEAN]]
    BY <1>1 DEF Init, Entry
  <2>2. children \in [Places -> [lease : Kids \cup {NoKid}, retained : BOOLEAN]]
    BY DEF Init, Entry
  <2>3. next_client \in 0 .. MaxClientNames /\ next_object \in ObjectFirst .. ObjectEnd
    BY NamesAssumption DEF Init
  <2> QED BY <2>1, <2>2, <2>3 DEF Init, TypeOK
<1>3. Filed /\ NoOrphans
  BY DEF Init, Filed, NoOrphans, Entry
<1> QED BY <1>2, <1>3 DEF Init, IInv, Burned, Gone, NamesNeverReissued

(* Reserving a root lease preserves the invariant: the new range starts at *)
(* the counter, above every range issued before.                           *)
LEMMA ReserveIInv ==
    ASSUME IInv, NEW count \in Counts, NEW slot \in ClientSlots, Reserve(count, slot)
    PROVE  IInv'
<1> DEFINE new == [slot |-> slot, client |-> next_client, first |-> next_object, count |-> count]
<1>1. /\ new \in Leases /\ count >= 1 /\ count \in Nat
      /\ entries[slot].lease = NoLease
      /\ entries' = [entries EXCEPT ![slot] = Entry(new)]
      /\ issued' = issued \cup {new} /\ next_object' = next_object + count
      /\ next_client' = next_client + 1
      /\ count <= ObjectEnd - next_object /\ next_client < MaxClientNames
      /\ UNCHANGED <<children, quiescent, issuedKids, retired>>
  BY NamesAssumption DEF IInv, TypeOK, Reserve, Room, FirstFree, Leases, ClientSlots
<1>2. next_object \in Nat /\ next_client \in Nat /\ ObjectEnd \in Nat
  BY NamesAssumption DEF IInv, TypeOK
<1>3. /\ new \notin issued /\ new \notin issuedKids /\ new \notin retired /\ new # NoLease
  <2>1. \A a \in issued \cup issuedKids : a # new
    <3> SUFFICES ASSUME NEW a \in issued \cup issuedKids PROVE a # new
      OBVIOUS
    <3>1. a.first \in Nat /\ a.count \in Nat BY DEF IInv, TypeOK, Leases, Kids
    <3>2. a.first < next_object BY <3>1, <1>2 DEF IInv, Burned
    <3> QED BY <3>2, <1>2
  <2> QED BY <2>1, <1>1 DEF IInv, TypeOK, NoLease
<1>4. TypeOK'
  <2>1. next_client' \in 0 .. MaxClientNames /\ next_object' \in ObjectFirst .. ObjectEnd
    BY <1>1, <1>2, NamesAssumption DEF IInv, TypeOK
  <2>2. entries' \in [ClientSlots -> [lease : Leases, retained : BOOLEAN]]
    BY <1>1 DEF IInv, TypeOK, Entry
  <2> QED BY <1>1, <2>1, <2>2 DEF IInv, TypeOK
<1>5. Burned'
  <2>1. \A a \in issued \cup issuedKids : a.first \in Nat /\ a.count \in Nat
    BY DEF IInv, TypeOK, Leases, Kids
  <2>2. \A a \in issued : a.client \in Nat
    BY DEF IInv, TypeOK, Leases
  <2> QED BY <1>1, <1>2, <2>1, <2>2 DEF IInv, Burned
<1>6. Filed'
  BY <1>1, <1>3 DEF IInv, TypeOK, Filed, Entry
<1>7. Gone'
  BY <1>1, <1>3 DEF IInv, TypeOK, Gone, Entry, Leases
<1>8. NamesNeverReissued'
  <2>1. \A a \in issued \cup issuedKids : Disjoint(a, new) /\ Disjoint(new, a)
    <3> SUFFICES ASSUME NEW a \in issued \cup issuedKids PROVE a.first + a.count <= new.first
      BY DEF Disjoint
    <3> QED BY DEF IInv, Burned
  <2> QED BY <1>1, <2>1 DEF IInv, NamesNeverReissued, Disjoint
<1>9. NoOrphans'
  <2> SUFFICES ASSUME NEW p \in Places, children[p].lease # NoKid
               PROVE  /\ entries'[children[p].lease.parent.slot].lease = children[p].lease.parent
                      /\ children[p].retained => entries'[children[p].lease.parent.slot].retained
    BY <1>1 DEF NoOrphans, Lookup
  <2>1. children[p].lease \in Kids
    BY DEF IInv, TypeOK
  <2>2. children[p].lease.parent \in Leases /\ children[p].lease.parent.slot \in ClientSlots
    BY <2>1 DEF Kids, Leases
  <2>3. /\ entries[children[p].lease.parent.slot].lease = children[p].lease.parent
        /\ children[p].retained => entries[children[p].lease.parent.slot].retained
    BY DEF IInv, NoOrphans, Lookup
  <2>4. children[p].lease.parent.slot # slot
    BY <1>1, <2>3 DEF IInv, Filed, Burned, NoLease
  <2> QED BY <1>1, <2>2, <2>3, <2>4 DEF IInv, TypeOK
<1> QED BY <1>4, <1>5, <1>6, <1>7, <1>8, <1>9 DEF IInv

(* Reserving a child range is the same argument over the child table. *)
LEMMA ReserveChildrenIInv ==
    ASSUME IInv, NEW parent \in issued, NEW count \in Counts, NEW place \in Places,
           ReserveChildren(parent, count, place)
    PROVE  IInv'
<1> DEFINE new == [place |-> place, parent |-> parent, first |-> next_object, count |-> count]
<1>1. /\ new \in Kids /\ count >= 1 /\ count \in Nat
      /\ children[place].lease = NoKid /\ Lookup(parent)
      /\ children' = [children EXCEPT ![place] = Entry(new)]
      /\ issuedKids' = issuedKids \cup {new} /\ next_object' = next_object + count
      /\ count <= ObjectEnd - next_object
      /\ UNCHANGED <<entries, next_client, quiescent, issued, retired>>
  BY NamesAssumption
     DEF IInv, TypeOK, ReserveChildren, Room, FirstFree, Validate, Kids
<1>2. next_object \in Nat /\ next_client \in Nat /\ ObjectEnd \in Nat
  BY NamesAssumption DEF IInv, TypeOK
<1>3. /\ new \notin issued /\ new \notin issuedKids /\ new \notin retired /\ new # NoKid
  <2>1. \A a \in issued \cup issuedKids : a # new
    <3> SUFFICES ASSUME NEW a \in issued \cup issuedKids PROVE a # new
      OBVIOUS
    <3>1. a.first \in Nat /\ a.count \in Nat BY DEF IInv, TypeOK, Leases, Kids
    <3>2. a.first < next_object BY <3>1, <1>2 DEF IInv, Burned
    <3> QED BY <3>2, <1>2
  <2> QED BY <2>1, <1>1 DEF IInv, TypeOK, NoKid
<1>4. TypeOK'
  <2>1. next_object' \in ObjectFirst .. ObjectEnd
    BY <1>1, <1>2, NamesAssumption DEF IInv, TypeOK
  <2>2. children' \in [Places -> [lease : Kids \cup {NoKid}, retained : BOOLEAN]]
    BY <1>1 DEF IInv, TypeOK, Entry
  <2> QED BY <1>1, <2>1, <2>2 DEF IInv, TypeOK
<1>5. Burned'
  <2>1. \A a \in issued \cup issuedKids : a.first \in Nat /\ a.count \in Nat
    BY DEF IInv, TypeOK, Leases, Kids
  <2> QED BY <1>1, <1>2, <2>1 DEF IInv, Burned
<1>6. Filed'
  BY <1>1, <1>3 DEF IInv, TypeOK, Filed, Entry
<1>7. Gone'
  BY <1>1, <1>3 DEF IInv, TypeOK, Gone, Entry, Kids
<1>8. NamesNeverReissued'
  <2>1. \A a \in issued \cup issuedKids : Disjoint(a, new) /\ Disjoint(new, a)
    <3> SUFFICES ASSUME NEW a \in issued \cup issuedKids PROVE a.first + a.count <= new.first
      BY DEF Disjoint
    <3> QED BY DEF IInv, Burned
  <2> QED BY <1>1, <2>1 DEF IInv, NamesNeverReissued, Disjoint
<1>9. NoOrphans'
  <2> SUFFICES ASSUME NEW p \in Places, children'[p].lease # NoKid
               PROVE  /\ Lookup(children'[p].lease.parent)
                      /\ children'[p].retained => entries[children'[p].lease.parent.slot].retained
    BY <1>1 DEF NoOrphans, Lookup
  <2>1. CASE p = place BY <1>1, <2>1 DEF IInv, TypeOK, Entry
  <2>2. CASE p # place BY <1>1, <2>2 DEF IInv, TypeOK, NoOrphans
  <2> QED BY <2>1, <2>2
<1> QED BY <1>4, <1>5, <1>6, <1>7, <1>8, <1>9 DEF IInv

(* Retiring a root needs requireNoChildren(): no child loses its parent. *)
LEMMA RetireIInv ==
    ASSUME IInv, NEW lease \in issued, Retire(lease)
    PROVE  IInv'
<1>1. /\ lease \in Leases /\ lease.slot \in ClientSlots
      /\ entries[lease.slot].lease = lease
      /\ \A p \in Places : children[p].lease # NoKid => children[p].lease.parent # lease
      /\ entries' = [entries EXCEPT ![lease.slot] = Entry(NoLease)]
      /\ retired' = retired \cup {lease}
      /\ UNCHANGED <<next_client, next_object, children, quiescent, issued, issuedKids>>
  BY DEF IInv, TypeOK, Leases, Retire, RequireNoChildren, Validate, Lookup
<1>2. NoLease \in Leases
  BY NamesAssumption DEF NoLease, Leases, ClientSlots
<1>3. lease # NoLease
  BY DEF IInv, Burned, NoLease
<1>4. TypeOK'
  BY <1>1, <1>2 DEF IInv, TypeOK, Entry
<1>5. Burned' /\ NamesNeverReissued'
  BY <1>1 DEF IInv, Burned, NamesNeverReissued
<1>6. Filed'
  BY <1>1 DEF IInv, TypeOK, Filed, Entry
<1>7. Gone'
  <2>1. lease \notin issuedKids
    <3> SUFFICES ASSUME lease \in issuedKids PROVE FALSE
      OBVIOUS
    <3>1. lease \in Leases /\ lease \in Kids BY DEF IInv, TypeOK
    <3> QED BY <3>1 DEF Leases, Kids
  <2>2. \A l \in issued' \cap retired' : entries'[l.slot].lease # l
    <3> SUFFICES ASSUME NEW l \in issued, l \in retired \cup {lease} PROVE entries'[l.slot].lease # l
      BY <1>1
    <3>1. l \in Leases /\ l.slot \in ClientSlots /\ l # NoLease
      BY DEF IInv, TypeOK, Burned, Leases, NoLease
    <3> QED BY <1>1, <3>1 DEF IInv, Gone, Entry, TypeOK
  <2> QED BY <1>1, <2>1, <2>2 DEF IInv, Gone
<1>8. NoOrphans'
  <2> SUFFICES ASSUME NEW p \in Places, children[p].lease # NoKid
               PROVE  /\ entries'[children[p].lease.parent.slot].lease = children[p].lease.parent
                      /\ children[p].retained => entries'[children[p].lease.parent.slot].retained
    BY <1>1 DEF NoOrphans, Lookup
  <2>1. children[p].lease.parent.slot \in ClientSlots
    BY DEF IInv, TypeOK, Kids, Leases
  <2>2. /\ entries[children[p].lease.parent.slot].lease = children[p].lease.parent
        /\ children[p].retained => entries[children[p].lease.parent.slot].retained
    BY DEF IInv, NoOrphans, Lookup
  <2>3. children[p].lease.parent.slot # lease.slot
    BY <1>1, <2>2
  <2> QED BY <1>1, <2>1, <2>2, <2>3 DEF IInv, TypeOK
<1> QED BY <1>4, <1>5, <1>6, <1>7, <1>8 DEF IInv

(* Retention only raises a flag of a held entry. *)
LEMMA RetainIInv ==
    ASSUME IInv, NEW lease \in issued, Retain(lease)
    PROVE  IInv'
<1>1. /\ lease \in Leases /\ lease.slot \in ClientSlots /\ lease # NoLease
      /\ entries[lease.slot].lease = lease
      /\ entries' = [entries EXCEPT ![lease.slot].retained = TRUE]
      /\ UNCHANGED <<next_client, next_object, children, quiescent, issued, issuedKids, retired>>
  BY DEF IInv, TypeOK, Leases, Retain, Lookup, Burned, NoLease
<1>2. TypeOK'
  BY <1>1 DEF IInv, TypeOK
<1>3. \A s \in ClientSlots : entries'[s].lease = entries[s].lease
                            /\ (entries[s].retained => entries'[s].retained)
                            /\ (s # lease.slot => entries'[s] = entries[s])
  BY <1>1 DEF IInv, TypeOK
<1>4. Burned' /\ NamesNeverReissued'
  BY <1>1 DEF IInv, Burned, NamesNeverReissued
<1>5. Filed' /\ Gone'
  BY <1>1, <1>3 DEF IInv, TypeOK, Filed, Gone, Leases
<1>6. NoOrphans'
  <2> SUFFICES ASSUME NEW p \in Places, children[p].lease # NoKid
               PROVE  /\ entries'[children[p].lease.parent.slot].lease = children[p].lease.parent
                      /\ children[p].retained => entries'[children[p].lease.parent.slot].retained
    BY <1>1 DEF NoOrphans, Lookup
  <2>1. children[p].lease.parent.slot \in ClientSlots
    BY DEF IInv, TypeOK, Kids, Leases
  <2> QED BY <1>3, <2>1 DEF IInv, NoOrphans, Lookup
<1> QED BY <1>2, <1>4, <1>5, <1>6 DEF IInv

(* Removing a child, with or without a reset proof, leaves the rest. *)
LEMMA RemoveIInv ==
    ASSUME IInv, NEW kid \in issuedKids, LookupChildren(kid), RemoveChildren(kid)
    PROVE  IInv'
<1>1. /\ kid \in Kids /\ kid.place \in Places /\ kid # NoKid
      /\ children[kid.place].lease = kid
      /\ children' = [children EXCEPT ![kid.place] = Entry(NoKid)]
      /\ retired' = retired \cup {kid}
      /\ UNCHANGED <<next_client, next_object, entries, quiescent, issued, issuedKids>>
  BY DEF IInv, TypeOK, Kids, Burned, NoKid, LookupChildren, RemoveChildren
<1>2. TypeOK'
  BY <1>1 DEF IInv, TypeOK, Entry
<1>3. Burned' /\ NamesNeverReissued'
  BY <1>1 DEF IInv, Burned, NamesNeverReissued
<1>4. Filed'
  BY <1>1 DEF IInv, TypeOK, Filed, Entry
<1>5. Gone'
  <2>1. kid \notin issued
    <3> SUFFICES ASSUME kid \in issued PROVE FALSE
      OBVIOUS
    <3>1. kid \in Leases /\ kid \in Kids BY DEF IInv, TypeOK
    <3> QED BY <3>1 DEF Leases, Kids
  <2>2. \A k \in issuedKids' \cap retired' : children'[k.place].lease # k
    <3> SUFFICES ASSUME NEW k \in issuedKids, k \in retired \cup {kid}
                 PROVE  children'[k.place].lease # k
      BY <1>1
    <3>1. k \in Kids /\ k.place \in Places /\ k # NoKid
      BY DEF IInv, TypeOK, Burned, Kids, NoKid
    <3> QED BY <1>1, <3>1 DEF IInv, Gone, Entry, TypeOK
  <2> QED BY <1>1, <2>1, <2>2 DEF IInv, Gone
<1>6. NoOrphans'
  BY <1>1 DEF IInv, TypeOK, NoOrphans, Lookup, Entry
<1> QED BY <1>2, <1>3, <1>4, <1>5, <1>6 DEF IInv

(* retainChildren() raises the child's and its parent's flag together. *)
LEMMA RetainChildrenIInv ==
    ASSUME IInv, NEW kid \in issuedKids, RetainChildren(kid)
    PROVE  IInv'
<1>1. /\ kid \in Kids /\ kid.place \in Places /\ kid # NoKid
      /\ kid.parent \in Leases /\ kid.parent.slot \in ClientSlots
      /\ kid.parent \in issued /\ kid.parent # NoLease
      /\ children[kid.place].lease = kid /\ entries[kid.parent.slot].lease = kid.parent
      /\ children' = [children EXCEPT ![kid.place].retained = TRUE]
      /\ entries' = [entries EXCEPT ![kid.parent.slot].retained = TRUE]
      /\ UNCHANGED <<next_client, next_object, quiescent, issued, issuedKids, retired>>
  BY DEF IInv, TypeOK, Kids, Leases, Burned, Filed, NoKid, NoLease, LookupChildren, Lookup,
         RetainChildren
<1>2. TypeOK'
  BY <1>1 DEF IInv, TypeOK
<1>3. \A s \in ClientSlots : entries'[s].lease = entries[s].lease
                            /\ (entries[s].retained => entries'[s].retained)
                            /\ (s # kid.parent.slot => entries'[s] = entries[s])
  BY <1>1 DEF IInv, TypeOK
<1>4. \A p \in Places : children'[p].lease = children[p].lease
                       /\ (p # kid.place => children'[p] = children[p])
  BY <1>1 DEF IInv, TypeOK
<1>5. entries'[kid.parent.slot].retained
  BY <1>1 DEF IInv, TypeOK
<1>6. Burned' /\ NamesNeverReissued'
  BY <1>1 DEF IInv, Burned, NamesNeverReissued
<1>7. Filed'
  BY <1>1, <1>3, <1>4 DEF IInv, TypeOK, Filed
<1>8. Gone'
  BY <1>1, <1>3, <1>4 DEF IInv, TypeOK, Gone, Leases, Kids
<1>9. NoOrphans'
  <2> SUFFICES ASSUME NEW p \in Places, children'[p].lease # NoKid
               PROVE  /\ entries'[children'[p].lease.parent.slot].lease = children'[p].lease.parent
                      /\ children'[p].retained => entries'[children'[p].lease.parent.slot].retained
    BY <1>1 DEF NoOrphans, Lookup
  <2>1. children[p].lease # NoKid /\ children[p].lease.parent.slot \in ClientSlots
    BY <1>4 DEF IInv, TypeOK, Kids, Leases
  <2>2. CASE p = kid.place
    <3>1. children'[p].lease = kid
      BY <1>1, <1>4, <2>2
    <3>2. entries'[kid.parent.slot].lease = kid.parent
      BY <1>1, <1>3
    <3> QED BY <3>1, <3>2, <1>5
  <2>3. CASE p # kid.place
    <3>1. children'[p] = children[p]
      BY <1>4, <2>3
    <3>2. /\ entries[children[p].lease.parent.slot].lease = children[p].lease.parent
          /\ children[p].retained => entries[children[p].lease.parent.slot].retained
      BY <2>1 DEF IInv, NoOrphans, Lookup
    <3> QED BY <3>1, <3>2, <1>3, <2>1
  <2> QED BY <2>2, <2>3
<1> QED BY <1>2, <1>6, <1>7, <1>8, <1>9 DEF IInv

(* Every step of the ledger preserves the invariant. *)
LEMMA NextIInv == IInv /\ [Next]_vars => IInv'
<1> SUFFICES ASSUME IInv, [Next]_vars PROVE IInv'
  OBVIOUS
<1>1. ASSUME NEW count \in Counts, NEW slot \in ClientSlots, Reserve(count, slot) PROVE IInv'
  BY <1>1, ReserveIInv
<1>2. ASSUME NEW lease \in issued, Retire(lease) PROVE IInv'
  BY <1>2, RetireIInv
<1>3. ASSUME NEW lease \in issued, Retain(lease) PROVE IInv'
  BY <1>3, RetainIInv
<1>4. ASSUME NEW lease \in issued, NEW count \in Counts, NEW place \in Places,
             ReserveChildren(lease, count, place)
      PROVE IInv'
  BY <1>4, ReserveChildrenIInv
<1>5. ASSUME NEW kid \in issuedKids, RetireChildren(kid) PROVE IInv'
  BY <1>5, RemoveIInv DEF RetireChildren, ValidateChildren
<1>6. ASSUME NEW kid \in issuedKids, RetainChildren(kid) PROVE IInv'
  BY <1>6, RetainChildrenIInv
<1>7. ASSUME NEW kid \in issuedKids, RetireChildrenAfterReset(kid) PROVE IInv'
  BY <1>7, RemoveIInv DEF RetireChildrenAfterReset
<1>8. CASE ProveQuiescent
  BY <1>8 DEF ProveQuiescent, IInv, TypeOK, Burned, Filed, Gone, NamesNeverReissued, NoOrphans,
              Lookup, Disjoint
<1>9. CASE UNCHANGED vars
  BY <1>9 DEF vars, IInv, TypeOK, Burned, Filed, Gone, NamesNeverReissued, NoOrphans,
              Lookup, Disjoint
<1> QED BY <1>1, <1>2, <1>3, <1>4, <1>5, <1>6, <1>7, <1>8, <1>9 DEF Next

(* The inductive invariant holds in every reachable state. *)
LEMMA Invariance == Spec => []IInv
<1> QED BY InitIInv, NextIInv, PTL DEF Spec

(* Counters and tables of the ledger stay in range for any sizes. *)
THEOREM TypeCorrect == Spec => []TypeOK
<1>1. IInv => TypeOK BY DEF IInv
<1> QED BY <1>1, Invariance, PTL

(* No object name is ever issued twice in a firmware run. *)
THEOREM NeverReissued == Spec => []NamesNeverReissued
<1>1. IInv => NamesNeverReissued BY DEF IInv
<1> QED BY <1>1, Invariance, PTL

(* A lease that was retired is never accepted again. *)
THEOREM StaleRejected == Spec => []StaleNeverValid
<1>1. IInv => StaleNeverValid BY DEF IInv, Gone, StaleNeverValid, Lookup, LookupChildren
<1> QED BY <1>1, Invariance, PTL

(* Neither a range nor a lease comes back, for any number of slots and names. *)
THEOREM NamesAreSpent == Spec => []NamesSpent
<1>1. NamesNeverReissued /\ StaleNeverValid => NamesSpent BY DEF NamesSpent
<1> QED BY <1>1, NeverReissued, StaleRejected, PTL

(* Every held child has its live parent, retained whenever the child is. *)
THEOREM ChildrenParented == Spec => []NoOrphans
<1>1. IInv => NoOrphans BY DEF IInv
<1> QED BY <1>1, Invariance, PTL

(* Retention is permanent for roots, and for children until a reset. *)
THEOREM RetentionPermanent == Spec => RetentionKept
<1> DEFINE Kept == /\ \A s \in ClientSlots : entries[s].retained => entries'[s] = entries[s]
                   /\ \A p \in Places : children[p].retained /\ ~quiescent
                        => children'[p] = children[p]
<1>1. IInv /\ [Next]_vars => [Kept]_vars
  <2> SUFFICES ASSUME IInv, Next PROVE Kept
    OBVIOUS
  <2>1. ASSUME NEW count \in Counts, NEW slot \in ClientSlots, Reserve(count, slot) PROVE Kept
    BY <2>1 DEF IInv, TypeOK, Filed, Reserve, FirstFree
  <2>2. ASSUME NEW lease \in issued, Retire(lease) PROVE Kept
    BY <2>2 DEF IInv, TypeOK, Leases, Retire, RequireNoChildren, Validate
  <2>3. ASSUME NEW lease \in issued, Retain(lease) PROVE Kept
    <3>1. lease.slot \in ClientSlots BY DEF IInv, TypeOK, Leases
    <3>2. ASSUME NEW s \in ClientSlots, entries[s].retained PROVE entries'[s] = entries[s]
      BY <2>3, <3>1, <3>2 DEF Retain, IInv, TypeOK
    <3> QED BY <2>3, <3>2 DEF Retain
  <2>4. ASSUME NEW lease \in issued, NEW count \in Counts, NEW place \in Places,
               ReserveChildren(lease, count, place)
        PROVE Kept
    BY <2>4 DEF IInv, TypeOK, Filed, ReserveChildren, FirstFree
  <2>5. ASSUME NEW kid \in issuedKids, RetireChildren(kid) PROVE Kept
    BY <2>5 DEF IInv, TypeOK, Kids, RetireChildren, ValidateChildren, RemoveChildren
  <2>6. ASSUME NEW kid \in issuedKids, RetainChildren(kid) PROVE Kept
    <3>1. kid.place \in Places /\ kid.parent.slot \in ClientSlots
      BY DEF IInv, TypeOK, Kids, Leases
    <3>2. ASSUME NEW s \in ClientSlots, entries[s].retained PROVE entries'[s] = entries[s]
      BY <2>6, <3>1, <3>2 DEF RetainChildren, IInv, TypeOK
    <3>3. ASSUME NEW p \in Places, children[p].retained PROVE children'[p] = children[p]
      BY <2>6, <3>1, <3>3 DEF RetainChildren, IInv, TypeOK
    <3> QED BY <3>2, <3>3
  <2>7. ASSUME NEW kid \in issuedKids, RetireChildrenAfterReset(kid) PROVE Kept
    BY <2>7 DEF RetireChildrenAfterReset, RemoveChildren
  <2>8. CASE ProveQuiescent
    BY <2>8 DEF ProveQuiescent
  <2> QED BY <2>1, <2>2, <2>3, <2>4, <2>5, <2>6, <2>7, <2>8 DEF Next
<1> QED BY <1>1, Invariance, PTL DEF Spec, RetentionKept
=============================================================================
