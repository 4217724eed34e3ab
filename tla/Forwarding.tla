------------------------------ MODULE Forwarding ------------------------------
(***************************************************************************)
(* The forwarding service against the delegations in the store.            *)
(*                                                                         *)
(* A delegated item at a path tells the service that requests below the    *)
(* path go elsewhere.  The commands tell the service while their write     *)
(* transaction is still open, so what it knows may be undone; the commands *)
(* that delete do not tell it at all.  A restart begins again from the     *)
(* store.  There is one write transaction at a time (StoreTransactions),   *)
(* so one is enough here.                                                  *)
(***************************************************************************)
EXTENDS Trie, FiniteSets

CONSTANTS
  Paths,     \* where delegated items may be, relative to the base of the registry
  Proxied,   \* the records with forwarding code 200, served through the proxy
  BySubject, \* the records of delegated registers that name a subject and no object
  None,      \* no delegated item, no record
  MaxChanges, \* bound: changes and deletions of delegated items
  MaxStarts  \* bound: restarts

Delegations == [record : Records, accepted : BOOLEAN] \union {None}

ASSUME ForwardingAssumption ==
  /\ Paths \subseteq Addresses /\ Proxied \subseteq Records /\ BySubject \subseteq Records
  /\ None \notin Records /\ None \notin [record : Records, accepted : BOOLEAN]
  /\ MaxChanges \in Nat /\ MaxStarts \in Nat

VARIABLES
  stored,    \* the delegated item committed at each path
  work,      \* the same, as the open write transaction sees it
  pc,        \* idle, in a write transaction, about to update the configuration, or starting
  trie, proxyForwards, configUpdateNeeded, \* the fields of ForwardingServiceImpl
  toLoad,    \* the delegations that startup has still to register
  config,    \* what the proxy serves
  written,   \* the configuration was last written by this run, and without failure
  changed,   \* paths changed by the open transaction
  astray,    \* paths that the service was not told about, or told what was then undone,
             \* and those beneath them
  changes, starts

service == <<trie, proxyForwards, configUpdateNeeded>>
vars == <<stored, work, pc, trie, proxyForwards, configUpdateNeeded, toLoad, config,
          written, changed, astray, changes, starts>>

Accepted(delegation) == delegation # None /\ delegation.accepted

Family(p) == {q \in Paths : Prefix(p, q)}

NoProxies == [p \in Paths |-> None]

------------------------------------------------------------------------------
(* The service.                                                             *)

\* Mutation: a forward that is no longer served through the proxy stays there.
RegisterKeepsProxy(p, record) ==
  /\ trie' = TrieRegister(trie, p, record)
  /\ proxyForwards' = IF record \in Proxied THEN [proxyForwards EXCEPT ![p] = record]
                                            ELSE proxyForwards
  /\ configUpdateNeeded' = (configUpdateNeeded \/ record \in Proxied)

\* Mutation: the forwarding code is not looked at.
RegisterProxiesAll(p, record) ==
  /\ trie' = TrieRegister(trie, p, record)
  /\ proxyForwards' = [proxyForwards EXCEPT ![p] = record]
  /\ configUpdateNeeded' = TRUE

\* Records are looked up by path: the trie always takes one, the proxy if its code is 200.
Register(p, record) ==
  /\ trie' = TrieRegister(trie, p, record)
  /\ proxyForwards' = [proxyForwards EXCEPT ![p] = IF record \in Proxied THEN record ELSE None]
  /\ configUpdateNeeded' =
       (configUpdateNeeded \/ record \in Proxied \/ proxyForwards[p] # None)

\* Mutation: the configuration is not marked for writing.
UnregisterUnflagged(p) ==
  /\ trie' = TrieUnregister(trie, p)
  /\ proxyForwards' = [proxyForwards EXCEPT ![p] = None]
  /\ UNCHANGED configUpdateNeeded

Unregister(p) ==
  /\ trie' = TrieUnregister(trie, p)
  /\ proxyForwards' = [proxyForwards EXCEPT ![p] = None]
  /\ configUpdateNeeded' = (configUpdateNeeded \/ proxyForwards[p] # None)

\* updateConfig: a failure to write the file or to restart the proxy is logged, and the
\* flag is cleared all the same.
WriteConfig ==
  /\ configUpdateNeeded' = FALSE
  /\ IF configUpdateNeeded
     THEN \/ config' = proxyForwards /\ written' = TRUE
          \/ config' = config /\ written' = FALSE
     ELSE UNCHANGED <<config, written>>

------------------------------------------------------------------------------
(* Commands, inside the write transaction.                                  *)

BeginWrite ==
  /\ pc = "idle"
  /\ pc' = "write"
  /\ UNCHANGED <<stored, work, service, toLoad, config, written, changed, astray, changes, starts>>

\* Mutation: an item that is no longer accepted keeps its forward.
ChangeAcceptedOnly(p) ==
  /\ pc = "write" /\ changes < MaxChanges /\ changes' = changes + 1
  /\ \E delegation \in Delegations \ {None} :
       /\ work' = [work EXCEPT ![p] = delegation]
       /\ IF Accepted(delegation) THEN Register(p, delegation.record) ELSE UNCHANGED service
  /\ pc' = "config"
  /\ changed' = changed \union {p}
  /\ UNCHANGED <<stored, toLoad, config, written, astray, starts>>

\* An item is added, updated or given a status, and checkDelegation tells the service.
\* Unregistering p cuts off the delegations beneath it as well.
Change(p) ==
  /\ pc = "write" /\ changes < MaxChanges /\ changes' = changes + 1
  /\ \E delegation \in Delegations \ {None} :
       /\ work' = [work EXCEPT ![p] = delegation]
       /\ \/ /\ Accepted(delegation)
             /\ Register(p, delegation.record)
             /\ UNCHANGED astray
          \/ /\ ~Accepted(delegation)
             /\ Unregister(p)
             /\ astray' = astray \union UNION {Family(q) : q \in {q \in Family(p) \ {p} :
                                                                      Accepted(work[q])}}
  /\ pc' = "config"
  /\ changed' = changed \union {p}
  /\ UNCHANGED <<stored, toLoad, config, written, starts>>

UpdateConfig ==
  /\ pc = "config"
  /\ WriteConfig
  /\ pc' = "write"
  /\ UNCHANGED <<stored, work, trie, proxyForwards, toLoad, changed, astray, changes, starts>>

\* Nobody tells the service that CommandDelete makes the item invalid, that
\* CommandRealDelete erases it, or that CommandUpdate of the item brings an entity of
\* another type, after which the item is no delegation any more.
Delete(p) ==
  /\ pc = "write" /\ work[p] # None
  /\ changes < MaxChanges /\ changes' = changes + 1
  /\ \/ work' = [work EXCEPT ![p] = None]
     \/ work' = [work EXCEPT ![p] = [record |-> @.record, accepted |-> FALSE]]
  /\ changed' = changed \union {p}
  /\ astray' = IF Accepted(work[p]) THEN astray \union Family(p) ELSE astray
  /\ UNCHANGED <<stored, pc, service, toLoad, config, written, starts>>

Commit ==
  /\ pc = "write"
  /\ stored' = work /\ changed' = {}
  /\ pc' = "idle"
  /\ UNCHANGED <<work, service, toLoad, config, written, astray, changes, starts>>

\* The handler fails after some of its changes.
Abort ==
  /\ pc \in {"write", "config"}
  /\ work' = stored /\ changed' = {}
  /\ astray' = astray \union UNION {Family(p) : p \in changed}
  /\ pc' = "idle"
  /\ UNCHANGED <<stored, service, toLoad, config, written, changes, starts>>

------------------------------------------------------------------------------
(* Restart.                                                                 *)

\* listDelegations: it fails on a delegated register that names no object, and goes on.
Outside == {p \in Paths : Accepted(stored[p]) /\ stored[p].record \notin BySubject}

Overlooked == {p \in Paths \ Outside : Accepted(stored[p])}

\* The process stops at any point.  The one that is started finds the store, and the
\* configuration that the proxy has.
Restart ==
  /\ starts < MaxStarts
  /\ starts' = starts + 1
  /\ pc' = "starting" /\ toLoad' = Outside
  /\ trie' = EmptyTrie /\ proxyForwards' = NoProxies /\ configUpdateNeeded' = FALSE
  /\ work' = stored /\ changed' = {} /\ written' = FALSE
  /\ astray' = UNION {Family(p) : p \in Overlooked}
  /\ UNCHANGED <<stored, config, changes>>

\* Registry.startup registers the accepted delegations in the order the query gives them.
Load ==
  /\ pc = "starting"
  /\ \E p \in toLoad :
       /\ Register(p, stored[p].record)
       /\ toLoad' = toLoad \ {p}
  /\ UNCHANGED <<stored, work, pc, config, written, changed, astray, changes, starts>>

Started ==
  /\ pc = "starting" /\ toLoad = {}
  /\ WriteConfig
  /\ pc' = "idle"
  /\ UNCHANGED <<stored, work, trie, proxyForwards, toLoad, changed, astray, changes, starts>>

------------------------------------------------------------------------------
Init ==
  /\ stored = [p \in Paths |-> None] /\ work = stored
  /\ pc = "idle"
  /\ trie = EmptyTrie /\ proxyForwards = NoProxies /\ configUpdateNeeded = FALSE
  /\ toLoad = {} /\ config = NoProxies /\ written = FALSE
  /\ changed = {} /\ astray = {} /\ changes = 0 /\ starts = 0

Next ==
  \/ BeginWrite \/ UpdateConfig \/ Commit \/ Abort \/ Restart \/ Load \/ Started
  \/ \E p \in Paths : Change(p) \/ Delete(p)

Spec == Init /\ [][Next]_vars

------------------------------------------------------------------------------
(* Properties.                                                              *)

TypeOK ==
  /\ stored \in [Paths -> Delegations] /\ work \in [Paths -> Delegations]
  /\ pc \in {"idle", "write", "config", "starting"}
  /\ trie \in Tries
  /\ proxyForwards \in [Paths -> Proxied \union {None}]
  /\ config \in [Paths -> Proxied \union {None}]
  /\ configUpdateNeeded \in BOOLEAN /\ written \in BOOLEAN
  /\ toLoad \subseteq Paths /\ changed \subseteq Paths /\ astray \subseteq Paths
  /\ changes \in 0..MaxChanges /\ starts \in 0..MaxStarts

\* The trie keeps its shape, so that a request has at most one match, whatever order
\* overlapping paths are registered, replaced and removed in (Trie.match).
OneMatch == Shape(trie) /\ \A p \in Addresses : Cardinality(Matches(trie, p)) <= 1

\* An accepted delegation with no other accepted one above it.
Outermost(p) ==
  Accepted(work[p]) /\ \A q \in Paths : Beneath(p, q) => ~Accepted(work[q])

\* Requests are forwarded as the outermost accepted delegations say, in the open
\* transaction and, once it has ended, in the store.  That fails only at and beneath a path
\* that was deleted or whose change was undone, or that lay beneath one that stopped being
\* accepted.  A restart, whatever order the query gives, mends all of these, and makes new
\* ones of the delegated registers it overlooks (ForwardingServiceImpl.update,
\* Registry.startup, StoreBaseImpl.listDelegations).
ForwardsFollowStore ==
  pc # "starting" =>
    \A p \in Paths \ astray :
      IF Outermost(p) THEN trie[p] = work[p].record ELSE trie[p] \notin Records

\* The same for the proxy, which is also told of the delegations that lie beneath others.
ProxiesFollowStore ==
  pc # "starting" =>
    \A p \in Paths \ astray :
      proxyForwards[p] = IF Accepted(work[p]) /\ work[p].record \in Proxied
                         THEN work[p].record ELSE None

\* Once this run has written the configuration, and until writing fails, what the proxy
\* serves is what the service knows, but for an update that is about to be made.
ConfigFollowsProxies ==
  written /\ ~configUpdateNeeded => config = proxyForwards

\* A change to one path leaves the forwards of all unrelated paths alone.
ChangesStayInFamily ==
  [][\A p \in Addresses :
       (trie'[p] \in Records \/ trie[p] \in Records) /\ trie'[p] # trie[p] =>
         \/ pc' = "starting"
         \/ \E q \in Paths : Prefix(q, p) /\ work'[q] # work[q]
         \/ \E q \in Paths : Prefix(q, p) /\ q \in changed']_vars
==============================================================================
