---------------------------- MODULE Subscriptions ----------------------------
(***************************************************************************)
(* What core/chain.js makes of the answers to its queries of subscriptions *)
(* and of plan membership: an answer of RPC and an answer of an LCD, each  *)
(* of which may be missing, become one list.                               *)
(*                                                                         *)
(* A subscription of the chain is [id, plan, mine, active, granted]: mine  *)
(* if the wallet owns it; granted if it is another's that was shared.      *)
(***************************************************************************)
EXTENDS Integers, FiniteSets

\* An entry of the result: its expiry is known or not.
Entry(s, expiry) == [id |-> s.id, plan |-> s.plan, expiry |-> expiry, via |-> ~s.mine]

\* RPC lists what the wallet owns, expired ones included, and no status of any.
FromRpc(chain) == {Entry(s, FALSE) : s \in {t \in chain : t.mine}}

\* Mutant: the LCD's list is taken over whole.
FromLcd_Whole(chain, have, allocations) ==
  {Entry(s, TRUE) : s \in {t \in chain : t.active}}

\* An LCD lists what is active and owned by the wallet or shared with others;
\* what RPC did not list and is not owned counts if its allocations could be read
\* and hold some bytes for the wallet.
FromLcd(chain, have, allocations) ==
  {Entry(s, TRUE) : s \in {t \in chain : t.active /\ (t.id \in have \/ t.mine \/
                                           (t.granted /\ t.id \in allocations))}}

\* querySubscriptions: rpc and lcd say which of them answered.
Merged(chain, rpc, lcd, allocations) ==
  LET direct == IF rpc THEN FromRpc(chain) ELSE {}
      have == {e.id : e \in direct}
      listed == IF lcd THEN FromLcd(chain, have, allocations) ELSE {}
  IN listed \cup {e \in direct : \A l \in listed : l.id # e.id}

\* fetchPlanMembership: the nodes of a plan (500 at most) come from RPC or, if it
\* gives none, from an LCD.  An LCD that is lost throws; one that answers with an
\* error has a body without nodes, and its status is not looked at.
PlanNodes(p, rpc, truth, errs) == IF p \notin rpc /\ p \in errs THEN {} ELSE truth[p]
AsksLcd(p, rpc, truth) == p \notin rpc \/ truth[p] = {}

\* An LCD that throws ends the whole look-up before any node is marked.
Membership(plans, rpc, truth, errs, lost) ==
  [n \in UNION {truth[p] : p \in plans} |->
     IF \E p \in lost : AsksLcd(p, rpc, truth) THEN {}
     ELSE {p \in plans : n \in PlanNodes(p, rpc, truth, errs)}]

\* One look at a fee grant: RPC or, if it errs, an LCD; both may fail.
GrantSeen(grant, rpc, lcd) == IF rpc \/ lcd THEN {grant} ELSE {}

\* querySubscriberPlansEnriched looks twice, and only at the grant of a plan owner
\* it knows and who is not the wallet itself.
Enriched(owner, grant, looks) ==
  LET seen == UNION {GrantSeen(grant, l.rpc, l.lcd) : l \in looks} IN
  [selfGranter |-> owner = "self",
   active |-> owner = "other" /\ TRUE \in seen,
   failed |-> owner = "other" /\ seen = {}]

---------------------------------------------------------------------------
(* Properties. *)

AnySub == [plan : {36, 37}, mine : BOOLEAN, active : BOOLEAN, granted : BOOLEAN]
Chains == {{[id |-> i, plan |-> subs[i].plan, mine |-> subs[i].mine, active |-> subs[i].active,
             granted |-> subs[i].granted] : i \in 1..2} : subs \in [1..2 -> AnySub]}

Usable(s) == s.active /\ (s.mine \/ s.granted)

\* Whatever fails: no subscription is listed twice and none that is another's
\* and not shared; an expired one is never given an expiry; the wallet's own
\* active ones need either list, shared ones need the LCD; and with the LCD
\* alone the list is exactly what the wallet can use.
SubscriptionsExact ==
  \A chain \in Chains : \A rpc, lcd \in BOOLEAN : \A allocations \in SUBSET {1, 2} :
    LET out == Merged(chain, rpc, lcd, allocations)
        sub(e) == CHOOSE s \in chain : s.id = e.id
        found == {sub(e) : e \in out}
    IN /\ Cardinality(found) = Cardinality(out)
       /\ \A s \in found : s.mine \/ s.granted
       /\ \A e \in out : e.expiry => Usable(sub(e))
       /\ \A s \in chain : Usable(s) =>
            (s \in found <=> IF s.mine THEN rpc \/ lcd ELSE lcd /\ s.id \in allocations)
       /\ lcd /\ ~rpc /\ allocations = {1, 2} => found = {s \in chain : Usable(s)}

\* A plan is never half known: whatever fails, it is shown on all of its nodes or
\* on none, and a failure that throws leaves no plan shown beside it.
MembershipWhole ==
  \A truth \in [{36, 37} -> SUBSET {1, 2}] : \A rpc, errs, lost \in SUBSET {36, 37} :
    LET shown == Membership({36, 37}, rpc, truth, errs, lost)
        on(p) == {n \in DOMAIN shown : p \in shown[n]}
    IN /\ \A p \in {36, 37} : on(p) \in {{}, truth[p]}
       /\ lost \ rpc # {} => on(36) \cup on(37) = {}

\* A failure is never taken for the answer that there is no grant, nor the other
\* way round; only with the owner unknown is nothing said of a grant that exists.
GrantsHonest ==
  \A owner \in {"self", "other", "unknown"} : \A grant \in BOOLEAN :
  \A looks \in {{l} : l \in [rpc : BOOLEAN, lcd : BOOLEAN]} \cup {{k, l} : k, l \in [rpc : BOOLEAN, lcd : BOOLEAN]} :
    LET row == Enriched(owner, grant, looks) IN
    /\ row.active => grant
    /\ owner = "other" /\ grant => row.active \/ row.failed
    /\ row.failed => \A l \in looks : ~l.rpc /\ ~l.lcd
=============================================================================
