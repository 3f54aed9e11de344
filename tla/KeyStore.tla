------------------------------- MODULE KeyStore -----------------------------
(***************************************************************************)
(* The Signal keys of the session, in the collection session_keys beside   *)
(* the credentials: read and written through keyStore, and deleted with    *)
(* the credentials by clear().  A set is one ordered bulkWrite of upserts, *)
(* whose operations reach the database one after the other; a deleted key  *)
(* is an empty value.  clear() deletes both collections at once, and       *)
(* either deletion may fail.                                               *)
(*                                                                         *)
(* A pairing stands for the credentials and all that was agreed under      *)
(* them: keys of another pairing are of no use, or misleading.  Baileys    *)
(* is external: it sets and gets the keys, and pairs.  When connects and   *)
(* closes happen is in Connection.                                         *)
(***************************************************************************)
EXTENDS Integers, Sequences, FiniteSets

CONSTANTS
  KeyIds,       \* category and keyId
  Secrets,      \* the encryption keys that connects use, in their order: one if it is configured
  MaxPairings,  \* bound: pairings
  MaxSets,      \* bound: calls of set
  MaxLosses     \* bound: failed deletions and writes, crashes

ASSUME KeyStoreAssumption ==
  /\ Secrets \subseteq Nat \ {0} /\ Secrets # {} /\ MaxPairings \in Nat \ {0} /\ MaxSets \in Nat /\ MaxLosses \in Nat

NoKey == [of |-> 0, secret |-> 0, value |-> 0]   \* no document; a value of 0 is the empty one

VARIABLES
  socket,      \* whose keyStore is used: the pairing and the secret of the last connect()
  phase,       \* "down", "up", "closed": the socket is gone and its session being cleared
  credsDoc,    \* the stored credentials
  keyDocs,     \* keyDocs[k]: the document of a key
  writing,     \* bulk writes on their way: the operations each has left; late, a ghost: since
               \* it was sent the keys were deleted, or another connect() began
  deleting,    \* what clear() has still to delete
  pairings,
  lastSet,     \* ghost: what this pairing set last under each key
  straggled,   \* ghost: a late write has landed
  half,        \* ghost: clear() deleted one of the two only, or none
  unwritten,   \* ghost: a write was lost
  sets, losses

keyVars == <<socket, phase, credsDoc, keyDocs, writing, deleting, pairings, lastSet, straggled, half,
             unwritten, sets, losses>>

Nobody == [of |-> 0, secret |-> 0]

KeyStoreInit ==
  /\ socket = Nobody /\ phase = "down" /\ credsDoc = Nobody
  /\ keyDocs = [k \in KeyIds |-> NoKey] /\ writing = {} /\ deleting = {}
  /\ pairings = 0 /\ lastSet = [k \in KeyIds |-> 0]
  /\ straggled = FALSE /\ half = FALSE /\ unwritten = FALSE /\ sets = 0 /\ losses = 0

-----------------------------------------------------------------------------
Late(ws) == {[w EXCEPT !.late = TRUE] : w \in ws}

\* getAuthState: the stored credentials, if they decrypt; otherwise new ones.
LoadAuth(secret) ==
  /\ phase = "down" /\ phase' = "up" /\ secret >= socket.secret
  /\ writing' = Late(writing)
  /\ IF credsDoc.of # 0 /\ credsDoc.secret = secret
     THEN /\ socket' = [of |-> credsDoc.of, secret |-> secret]
          /\ UNCHANGED <<pairings, lastSet>>
     ELSE /\ pairings < MaxPairings /\ pairings' = pairings + 1
          /\ socket' = [of |-> pairings + 1, secret |-> secret]
          /\ lastSet' = [k \in KeyIds |-> 0]
  /\ UNCHANGED <<credsDoc, keyDocs, deleting, straggled, half, unwritten, sets, losses>>

\* The phone pairs: creds.update, and saveCreds.
SaveCreds ==
  /\ phase = "up" /\ credsDoc # socket /\ credsDoc' = socket
  /\ UNCHANGED <<socket, phase, keyDocs, writing, deleting, pairings, lastSet, straggled, half,
                 unwritten, sets, losses>>

\* set: one operation per key, in the order of the data; 0 deletes.
SetKeys(ops) ==
  /\ phase = "up" /\ credsDoc = socket /\ sets < MaxSets /\ sets' = sets + 1
  /\ \A w \in writing : w.late   \* Baileys sends one after the other
  /\ writing' = writing \cup {[by |-> socket, ops |-> ops, late |-> FALSE]}
  /\ lastSet' = [k \in KeyIds |-> IF \E o \in 1 .. Len(ops) : ops[o].key = k
                                  THEN ops[CHOOSE o \in 1 .. Len(ops) : ops[o].key = k].value
                                  ELSE lastSet[k]]
  /\ UNCHANGED <<socket, phase, credsDoc, keyDocs, deleting, pairings, straggled, half, unwritten, losses>>

\* Mutant: a deleted key keeps its document as it is.
Upserted_Kept(doc, by, value) ==
  IF value = 0 THEN doc ELSE [of |-> by.of, secret |-> by.secret, value |-> value]

\* updateOne with upsert: whatever was deleted meanwhile is there again.
Upserted(doc, by, value) == [of |-> by.of, secret |-> by.secret, value |-> value]

WriteLands(w) ==
  /\ LET op == Head(w.ops)
     IN keyDocs' = [keyDocs EXCEPT ![op.key] = Upserted(@, w.by, op.value)]
  /\ writing' = (writing \ {w}) \cup (IF Len(w.ops) = 1 THEN {} ELSE {[w EXCEPT !.ops = Tail(@)]})
  /\ straggled' = (straggled \/ w.late)
  /\ UNCHANGED <<socket, phase, credsDoc, deleting, pairings, lastSet, half, unwritten, sets, losses>>

\* bulkWrite rejects: the operations it has left are not made.
WriteFails(w) ==
  /\ losses < MaxLosses /\ losses' = losses + 1
  /\ writing' = writing \ {w} /\ unwritten' = TRUE
  /\ UNCHANGED <<socket, phase, credsDoc, keyDocs, deleting, pairings, lastSet, straggled, half, sets>>

\* An empty value, and one that does not decrypt, is null.
Deserialized(doc) == IF doc.secret = socket.secret THEN doc.value ELSE 0

\* get
Got(k) == Deserialized(keyDocs[k])

-----------------------------------------------------------------------------
\* The socket closes and its session is invalid: clear().
BeginClear ==
  /\ phase = "up" /\ phase' = "closed" /\ deleting' = {"creds", "keys"}
  /\ UNCHANGED <<socket, credsDoc, keyDocs, writing, pairings, lastSet, straggled, half, unwritten,
                 sets, losses>>

\* The socket closes, and only reconnects.
Disconnects ==
  /\ phase = "up" /\ phase' = "down"
  /\ UNCHANGED <<socket, credsDoc, keyDocs, writing, deleting, pairings, lastSet, straggled, half,
                 unwritten, sets, losses>>

Kept == UNCHANGED <<socket, pairings, lastSet, straggled, unwritten, sets>>

DeleteKeys == "keys" \in deleting /\ keyDocs' = [k \in KeyIds |-> NoKey] /\ writing' = Late(writing)

\* Once both have settled the next connect() may come.
ClearStep ==
  /\ phase = "closed" /\ Kept /\ UNCHANGED <<half, losses>>
  /\ \/ "creds" \in deleting /\ credsDoc' = Nobody /\ UNCHANGED <<keyDocs, writing>>
        /\ deleting' = deleting \ {"creds"}
     \/ DeleteKeys /\ UNCHANGED credsDoc /\ deleting' = deleting \ {"keys"}
  /\ phase' = IF deleting' = {} THEN "down" ELSE phase

\* A deletion fails, and a later start of the process connects again.
DeletionFails ==
  /\ phase = "closed" /\ Kept /\ losses < MaxLosses /\ losses' = losses + 1
  /\ \E d \in deleting : deleting' = deleting \ {d}
  /\ half' = TRUE
  /\ phase' = IF deleting' = {} THEN "down" ELSE phase
  /\ UNCHANGED <<credsDoc, keyDocs, writing>>

\* The process dies: what was sent is made or not, what was not is never made.
KeyStoreCrash ==
  /\ phase # "down" /\ losses < MaxLosses /\ losses' = losses + 1
  /\ phase' = "down" /\ writing' = {} /\ deleting' = {}
  /\ half' = (half \/ deleting # {}) /\ unwritten' = (unwritten \/ writing # {})
  /\ UNCHANGED <<socket, credsDoc, keyDocs, pairings, lastSet, straggled, sets>>

OpsOn(keys) == {<<[key |-> k, value |-> v]>> : k \in keys, v \in {0, sets + 1}}
  \cup {<<[key |-> k, value |-> sets + 1], [key |-> l, value |-> 0]>> : k \in keys, l \in keys}

KeyStoreNext ==
  \/ \E s \in Secrets : LoadAuth(s)
  \/ \E ops \in OpsOn(KeyIds) : (Len(ops) = 2 => ops[1].key # ops[2].key) /\ SetKeys(ops)
  \/ \E w \in writing : WriteLands(w) \/ WriteFails(w)
  \/ SaveCreds \/ BeginClear \/ Disconnects \/ ClearStep \/ DeletionFails \/ KeyStoreCrash

KeyStoreSpec == KeyStoreInit /\ [][KeyStoreNext]_keyVars

-----------------------------------------------------------------------------
(* Properties.                                                             *)

KeyStoreTypeOK ==
  /\ phase \in {"down", "up", "closed"} /\ socket.of \in 0 .. MaxPairings
  /\ deleting \subseteq {"creds", "keys"} /\ (deleting # {} => phase = "closed")
  /\ \A k \in KeyIds : keyDocs[k].of \in 0 .. pairings /\ keyDocs[k].value \in 0 .. MaxSets

(* What a session reads is what it set itself: no key of a pairing that was
   cleared comes back, but for a write that was on its way when it was
   cleared, and a clear that was made half.                                *)
OwnKeysOnly ==
  phase = "up" => straggled \/ half \/ \A k \in KeyIds : Got(k) # 0 => keyDocs[k].of = socket.of

(* Once its writes have landed, a session reads what it set last, and nothing
   where it deleted, across reconnects and restarts; but for a late write, a
   lost one and a clear that was made half.                                *)
ReadsWhatItSet ==
  phase = "up" /\ writing = {} /\ ~half /\ ~straggled /\ ~unwritten =>
    \A k \in KeyIds : Got(k) = lastSet[k]

(* The keys a session reads are its own, and as it left them.              *)
KeysHold == OwnKeysOnly /\ ReadsWhatItSet
=============================================================================
