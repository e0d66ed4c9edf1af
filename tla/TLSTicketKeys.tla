---------------------------- MODULE TLSTicketKeys ---------------------------
(* ssl/TLSTicketKeyManager and ssl/TLSTicketKeySeeds: the session ticket keys  *)
(* of one SSL_CTX, made from lists of old, current and new seeds.  A key is    *)
(* named by its seed (its name and its source are hashes of the seed).         *)
EXTENDS Sequences, SequencesExt

CONSTANT
  Undecodable      \* seeds that are not hexadecimal

(* One seed that was accepted, with the list it came from. *)
Typed(seedList, t) == [i \in DOMAIN seedList |-> [seed |-> seedList[i], type |-> t]]
Decoded(seeds) == SelectSeq(Typed(seeds.old, "old") \o Typed(seeds.current, "current")
                              \o Typed(seeds.new, "new"),
                            LAMBDA s : s.seed \notin Undecodable)

(* insertNewKey: ticketKeys_.insert keeps the key that has the name already,   *)
(* so a key has the type of the first list its seed is in.                     *)
typeOf(typed, seed) == typed[SelectInSeq(typed, LAMBDA s : s.seed = seed)].type

(* setTLSTicketKeySeeds: old, then current, then new seeds; those that do not  *)
(* decode are skipped.  Keys of type current encrypt; without one OpenSSL's    *)
(* own ticket keys are used (the callback is null).                            *)
setTLSTicketKeySeeds(seeds) ==
  LET typed == Decoded(seeds)
      active == SelectSeq(typed, LAMBDA s : typeOf(typed, s.seed) = "current")
  IN [ticketSeeds |-> typed,
      ticketKeys |-> {s.seed : s \in Range(typed)},
      activeKeys |-> [i \in DOMAIN active |-> active[i].seed],
      callback |-> Len(active) > 0]

getTLSTicketKeySeeds(m) ==
  LET of(t) == LET s == SelectSeq(m.ticketSeeds, LAMBDA x : x.type = t)
               IN [i \in DOMAIN s |-> s[i].seed]
  IN [old |-> of("old"), current |-> of("current"), new |-> of("new")]

(* processTicket: the keys a ticket may be encrypted with (findEncryptionKey   *)
(* takes any active one), and whether one decrypts.                            *)
EncryptionKeys(m) == IF m.callback THEN Range(m.activeKeys) ELSE {}
findDecryptionKey(m, key) == key \in m.ticketKeys
Decrypts(m, key) == m.callback /\ findDecryptionKey(m, key)

-----------------------------------------------------------------------------
areSeedsSubset(lhs, rhs) == Len(lhs) <= Len(rhs) /\ Range(lhs) \subseteq Range(rhs)

isEmpty(s) == s.old = <<>> /\ s.current = <<>> /\ s.new = <<>>
isNotEmpty(s) == s.old # <<>> /\ s.current # <<>> /\ s.new # <<>>

(* isValidRotation: the first seeds at all, a rotation by one step, or the     *)
(* same seeds with more added.                                                 *)
isValidRotation(s, next) ==
  \/ isEmpty(s) /\ isNotEmpty(next)
  \/ areSeedsSubset(s.new, next.current) /\ areSeedsSubset(s.current, next.old)
  \/ /\ areSeedsSubset(s.old, next.old)
     /\ areSeedsSubset(s.current, next.current)
     /\ areSeedsSubset(s.new, next.new)
=============================================================================
