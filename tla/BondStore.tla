------------------------------ MODULE BondStore ------------------------------
(* The bonds of the firmware: the records of NimBLE's store in RAM and in    *)
(* the flash (NVS), the security of a connection and the subscriptions of    *)
(* the host at its other end.                                                *)
(*                                                                           *)
(* The host task works through what an event asks of the store, one record   *)
(* after another, before it takes the next event; only the loss of power     *)
(* comes between.  There is one connection at a time, since the advertising  *)
(* starts again when it ends.  Secure Connections leave one key per host.    *)
EXTENDS Integers, SequencesExt, FiniteSetsExt

CONSTANTS
    Peers,       \* the hosts
    Chars,       \* the characteristics a host may subscribe to
    MaxBonds,    \* BLE_STORE_MAX_BONDS
    MaxCccds,    \* BLE_STORE_MAX_CCCDS
    MaxPairings, \* bound on the pairings
    NoPeer

ASSUME BondsAssumption == MaxBonds \in Nat \ {0} /\ MaxCccds \in Nat \ {0}
ASSUME PairingsAssumption == MaxPairings \in Nat
ASSUME PeersAssumption == NoPeer \notin Peers

Kinds       == {"our", "peer", "cccd"}
Capacity(k) == IF k = "cccd" THEN MaxCccds ELSE MaxBonds
Keys        == 1..MaxPairings
NoKey       == 0

\* A record belongs to a host; its value is a key or a characteristic.
Records(k) == Peers \X (IF k = "cccd" THEN Chars ELSE Keys)
Empty      == <<>>

VARIABLES
    ram,      \* ble_store_config_our_secs, _peer_secs and _cccds
    nvs,      \* the slots of the NVS
    conn,     \* the connection, its security and the flags of its CCCDs
    todo,     \* what is left to do in the store
    key,      \* the hosts' keys
    wish,     \* what the hosts have subscribed to
    unsaved,  \* those of it they subscribed to before they were bonded
    dropped,  \* hosts whose bond the device gave up, or did not store in full
    replaced, \* a record was overwritten by another one
    pairings  \* pairings so far

store   == <<ram, nvs>>
hosts   == <<key, wish, unsaved>>
history == <<dropped, replaced, pairings>>
vars    == <<store, conn, todo, hosts, history>>

NoConn  == [peer |-> NoPeer, pairing |-> FALSE, encrypted |-> FALSE,
            bonded |-> FALSE, flags |-> {}]

\* What an operation asks of the store: to write a record, to delete the records
\* of a host (all of the kind, or one), or to go on with the pairing.
Write(k, r)        == [op |-> "write", kind |-> k, rec |-> r]
DeleteAll(k, p)    == [op |-> "delete", kind |-> k, rec |-> <<p>>]
DeleteCccd(p, c)   == [op |-> "delete", kind |-> "cccd", rec |-> <<p, c>>]
Tasks == (UNION {{Write(k, r) : r \in Records(k)} : k \in Kinds})
            \cup {DeleteAll(k, p) : k \in Kinds, p \in Peers}
            \cup {DeleteCccd(p, c) : p \in Peers, c \in Chars}

TypeOK ==
    /\ \A k \in Kinds : /\ ram[k] \in Seq(Records(k)) /\ Len(ram[k]) <= Capacity(k)
                        /\ nvs[k] \in [1..Capacity(k) -> Records(k) \cup {Empty}]
    /\ conn \in [peer : Peers \cup {NoPeer}, pairing : BOOLEAN, encrypted : BOOLEAN,
                 bonded : BOOLEAN, flags : SUBSET Chars]
    /\ todo \in Seq(Tasks)
    /\ key \in [Peers -> Keys \cup {NoKey}]
    /\ wish \in [Peers -> SUBSET Chars] /\ unsaved \in [Peers -> SUBSET Chars]
    /\ dropped \subseteq Peers /\ replaced \in BOOLEAN
    /\ pairings \in 0..MaxPairings

Init ==
    /\ ram = [k \in Kinds |-> <<>>]
    /\ nvs = [k \in Kinds |-> [i \in 1..Capacity(k) |-> Empty]]
    /\ conn = NoConn /\ todo = <<>>
    /\ key = [p \in Peers |-> NoKey]
    /\ wish = [p \in Peers |-> {}] /\ unsaved = [p \in Peers |-> {}]
    /\ dropped = {} /\ replaced = FALSE /\ pairings = 0

-----------------------------------------------------------------------------
(* The store.                                                                *)

Used(slots) == {i \in DOMAIN slots : slots[i] # Empty}

\* The slot of the n-th record, and the records in the order of their slots.
Slot(slots, n) ==
    CHOOSE i \in Used(slots) : Cardinality({j \in Used(slots) : j <= i}) = n
Restored(slots) == [n \in 1..Cardinality(Used(slots)) |-> slots[Slot(slots, n)]]

\* Mutant of Persisted: the last slot in use is erased.
Persisted_EraseLast(slots, rs) ==
    LET free  == DOMAIN slots \ Used(slots)
        count == Cardinality(Used(slots))
    IN  IF count < Len(rs) THEN [slots EXCEPT ![Min(free)] = Last(rs)]
        ELSE IF count > Len(rs) THEN [slots EXCEPT ![Max(Used(slots))] = Empty]
        ELSE slots

\* ble_store_config_persist_...(): the number of records tells whether the last
\* one is written to the first free slot, or the first one erased that is not in
\* RAM.
Persisted(slots, rs) ==
    LET free  == DOMAIN slots \ Used(slots)
        odd   == {i \in Used(slots) : slots[i] \notin Range(rs)}
        count == Cardinality(Used(slots))
    IN  IF count < Len(rs) THEN IF free = {} THEN slots
                                ELSE [slots EXCEPT ![Min(free)] = Last(rs)]
        ELSE IF count > Len(rs)
             THEN [slots EXCEPT ![IF odd = {} THEN count ELSE Min(odd)] = Empty]
        ELSE slots

\* find_sec() and find_cccd(): the places of the host's records, or of the one
\* for a characteristic.
Matches(k, rec) ==
    {i \in DOMAIN ram[k] : ram[k][i][1] = rec[1] /\ (Len(rec) = 2 => ram[k][i] = rec)}

\* the place a record is written to, which for a key is that of the host's old one
PlaceOf(k, r) == Matches(k, IF k = "cccd" THEN r ELSE <<r[1]>>)

Store(k, rs) ==
    /\ ram' = [ram EXCEPT ![k] = rs]
    /\ nvs' = [nvs EXCEPT ![k] = Persisted(@, rs)]

\* Mutant of DeletePeer: the CCCDs go first.
DeletePeer_CccdsFirst(p) ==
    <<DeleteAll("cccd", p), DeleteAll("peer", p), DeleteAll("our", p)>>

\* ble_store_util_delete_peer(), part by part
DeletePeer(p) == <<DeleteAll("our", p), DeleteAll("peer", p), DeleteAll("cccd", p)>>

\* ble_store_util_status_rr(): the places of the hosts to unpair for a record of
\* p that does not fit.  ble_gap_unpair_oldest_peer() asks for the bonded hosts
\* with room for one, and gives up when there are more.
Unpairable(k, p) ==
    {i \in DOMAIN ram["our"] :
        IF k = "cccd" THEN ram["our"][i][1] # p ELSE Len(ram["our"]) = 1}

Fits(t) == PlaceOf(t.kind, t.rec) # {} \/ Len(ram[t.kind]) < Capacity(t.kind)

\* The host learns that its subscription was taken.
Confirm(p, c) ==
    /\ wish' = [wish EXCEPT ![p] = @ \cup {c}]
    /\ unsaved' = [unsaved EXCEPT ![p] = @ \ {c}]
    /\ UNCHANGED key

WriteFits ==
    /\ todo # <<>> /\ todo[1].op = "write" /\ Fits(todo[1])
    /\ LET k == todo[1].kind
           r == todo[1].rec
           place == PlaceOf(k, r)
       IN  /\ Store(k, IF place = {} THEN Append(ram[k], r)
                       ELSE [ram[k] EXCEPT ![Min(place)] = r])
           /\ replaced' = (replaced \/ (place # {} /\ r \notin Range(ram[k])))
           /\ IF k = "cccd" THEN Confirm(r[1], r[2]) ELSE UNCHANGED hosts
    /\ todo' = Tail(todo)
    /\ UNCHANGED <<conn, dropped, pairings>>

\* No room: another host is unpaired, and the record written then, or given up.
WriteOverflows ==
    /\ todo # <<>> /\ todo[1].op = "write" /\ ~Fits(todo[1])
    /\ LET p == todo[1].rec[1]
           places == Unpairable(todo[1].kind, p)
           victim == ram["our"][Min(places)][1]
       IN  IF places # {}
           THEN /\ todo' = DeletePeer(victim) \o todo
                /\ dropped' = dropped \cup {victim}
           ELSE /\ todo' = Tail(todo)
                /\ dropped' = IF todo[1].kind = "cccd" THEN dropped ELSE dropped \cup {p}
    /\ UNCHANGED <<store, conn, hosts, replaced, pairings>>

\* Mutant of Delete: the first record is removed, not the one found.
Delete_First ==
    /\ todo # <<>> /\ todo[1].op = "delete"
    /\ LET k == todo[1].kind
           found == Matches(k, todo[1].rec)
       IN  IF found = {} THEN todo' = Tail(todo) /\ UNCHANGED store
           ELSE /\ Store(k, Tail(ram[k]))
                /\ todo' = IF Len(todo[1].rec) = 1 THEN todo ELSE Tail(todo)
    /\ UNCHANGED <<conn, hosts, history>>

\* ble_store_config_delete_...(), again until there is none of the host's left
Delete ==
    /\ todo # <<>> /\ todo[1].op = "delete"
    /\ LET k == todo[1].kind
           found == Matches(k, todo[1].rec)
       IN  IF found = {} THEN todo' = Tail(todo) /\ UNCHANGED store
           ELSE /\ Store(k, RemoveAt(ram[k], Min(found)))
                /\ todo' = IF Len(todo[1].rec) = 1 THEN todo ELSE Tail(todo)
    /\ UNCHANGED <<conn, hosts, history>>

-----------------------------------------------------------------------------
(* The host task takes an event when the store is done.                      *)

Ready  == todo = <<>>
Linked == Ready /\ conn # NoConn

\* A host without a bond starts with no subscriptions.
Connect(p) ==
    /\ Ready /\ conn = NoConn
    /\ conn' = [NoConn EXCEPT !.peer = p]
    /\ IF key[p] = NoKey THEN /\ wish' = [wish EXCEPT ![p] = {}]
                              /\ unsaved' = [unsaved EXCEPT ![p] = {}]
       ELSE UNCHANGED <<wish, unsaved>>
    /\ UNCHANGED <<store, todo, key, history>>

Disconnect ==
    /\ Linked
    /\ conn' = NoConn
    /\ UNCHANGED <<store, todo, hosts, history>>

\* ble_sm_ltk_req_rx() and ble_gatts_bonding_restored(): the host encrypts with
\* its key.  Without a record nothing changes; with another key the link ends.
Encrypt ==
    /\ Linked /\ ~conn.encrypted /\ ~conn.pairing
    /\ key[conn.peer] # NoKey /\ Matches("our", <<conn.peer>>) # {}
    /\ conn' = IF <<conn.peer, key[conn.peer]>> \in Range(ram["our"])
               THEN [conn EXCEPT !.encrypted = TRUE, !.bonded = TRUE,
                        !.flags = @ \cup {c \in Chars : <<conn.peer, c>> \in Range(ram["cccd"])}]
               ELSE NoConn
    /\ UNCHANGED <<store, todo, hosts, history>>

\* ble_sm_chk_repeat_pairing(): the server deletes the bond the host has.
PairRequest ==
    /\ Linked /\ ~conn.encrypted /\ ~conn.pairing
    /\ conn' = [conn EXCEPT !.pairing = TRUE]
    /\ IF Matches("peer", <<conn.peer>>) = {} THEN UNCHANGED <<todo, dropped>>
       ELSE /\ todo' = DeletePeer(conn.peer)
            /\ dropped' = dropped \cup {conn.peer}
    /\ UNCHANGED <<store, hosts, replaced, pairings>>

PairFails ==
    /\ Linked /\ conn.pairing
    /\ conn' = [conn EXCEPT !.pairing = FALSE]
    /\ UNCHANGED <<store, todo, hosts, history>>

\* ble_sm_key_exch_success() and ble_sm_persist_keys().  Its result says nothing
\* of a bond, so that ble_gap_enc_event() does not store the subscriptions.
PairDone ==
    /\ Linked /\ conn.pairing /\ pairings < MaxPairings
    /\ pairings' = pairings + 1
    /\ LET p == conn.peer
       IN  /\ key' = [key EXCEPT ![p] = pairings']
           /\ todo' = <<Write("our", <<p, pairings'>>), Write("peer", <<p, pairings'>>)>>
           /\ wish' = [wish EXCEPT ![p] = conn.flags]
           /\ unsaved' = [unsaved EXCEPT ![p] = conn.flags]
           /\ dropped' = dropped \ {p}
    /\ conn' = [conn EXCEPT !.pairing = FALSE, !.encrypted = TRUE, !.bonded = TRUE]
    /\ UNCHANGED <<store, replaced>>

\* ble_gatts_clt_cfg_access(): the host writes a CCCD.
Subscribe(c) ==
    /\ Linked /\ c \notin conn.flags
    /\ conn' = [conn EXCEPT !.flags = @ \cup {c}]
    /\ IF conn.bonded
       THEN todo' = <<Write("cccd", <<conn.peer, c>>)>> /\ UNCHANGED <<wish, unsaved>>
       ELSE /\ wish' = [wish EXCEPT ![conn.peer] = @ \cup {c}]
            /\ unsaved' = [unsaved EXCEPT ![conn.peer] =
                              IF <<conn.peer, c>> \in Range(ram["cccd"]) THEN @ ELSE @ \cup {c}]
            /\ UNCHANGED todo
    /\ UNCHANGED <<store, key, history>>

Unsubscribe(c) ==
    /\ Linked /\ c \in conn.flags
    /\ conn' = [conn EXCEPT !.flags = @ \ {c}]
    /\ todo' = IF conn.bonded THEN <<DeleteCccd(conn.peer, c)>> ELSE todo
    /\ wish' = [wish EXCEPT ![conn.peer] = @ \ {c}]
    /\ unsaved' = [unsaved EXCEPT ![conn.peer] = @ \ {c}]
    /\ UNCHANGED <<store, key, history>>

-----------------------------------------------------------------------------
(* The outside.                                                              *)

\* The user removes the device from a host.
Forget(p) ==
    /\ conn.peer # p /\ key[p] # NoKey
    /\ key' = [key EXCEPT ![p] = NoKey]
    /\ wish' = [wish EXCEPT ![p] = {}] /\ unsaved' = [unsaved EXCEPT ![p] = {}]
    /\ UNCHANGED <<store, conn, todo, history>>

\* The firmware starts again with what is in the NVS.
PowerCut ==
    /\ ram' = [k \in Kinds |-> Restored(nvs[k])]
    /\ conn' = NoConn /\ todo' = <<>>
    /\ dropped' = dropped \cup {t.rec[1] : t \in {u \in Range(todo) :
                                             u.op = "write" /\ u.kind # "cccd"}}
    /\ UNCHANGED <<nvs, hosts, replaced, pairings>>

StoreStep == WriteFits \/ WriteOverflows \/ Delete
Next ==
    \/ StoreStep
    \/ Disconnect \/ Encrypt \/ PairRequest \/ PairFails \/ PairDone
    \/ \E p \in Peers : Connect(p) \/ Forget(p)
    \/ \E c \in Chars : Subscribe(c) \/ Unsubscribe(c)
    \/ PowerCut

Spec == Init /\ [][Next]_vars

-----------------------------------------------------------------------------
InNvs(k) == {nvs[k][i] : i \in Used(nvs[k])}

\* The NVS holds the records that are in RAM, although persist_...() only
\* compares their numbers: whatever is written, deleted and interrupted, unless
\* a record was overwritten by a different one (then the numbers stay the same
\* and the NVS keeps the old one).
NvsMatches ==
    ~replaced => \A k \in Kinds : /\ InNvs(k) = Range(ram[k])
                                  /\ Cardinality(Used(nvs[k])) = Len(ram[k])

\* A host that was bonded can come back after any loss of power: both records of
\* its bond are in the NVS, with the key of the host, unless the device dropped
\* the bond for another one, had no room or lost power while it stored it.
BondKept ==
    Ready /\ ~replaced =>
        \A p \in Peers \ dropped : key[p] # NoKey =>
            <<p, key[p]>> \in InNvs("our") \cap InNvs("peer")

\* On a bonded link the device notifies every characteristic its host counts on,
\* those included that were subscribed to before a loss of power or the bonds of
\* other hosts; not those of before the bond.
SubscriptionsKept ==
    Ready /\ conn.bonded /\ ~replaced =>
        wish[conn.peer] \ unsaved[conn.peer] \subseteq conn.flags

\* The comment in ble_gap_enc_event(): subscriptions of before the bond are
\* stored.  They are not.
EarlierSubscriptionsStored ==
    Ready /\ conn.bonded => {<<conn.peer, c>> : c \in unsaved[conn.peer]} \subseteq Range(ram["cccd"])
=============================================================================
