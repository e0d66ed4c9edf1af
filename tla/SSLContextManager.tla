-------------------------- MODULE SSLContextManager -------------------------
(* ssl/SSLContextManager as the Acceptor uses it: server certificates indexed  *)
(* by domain name for SNI, each SSL_CTX with its ticket keys; contexts are     *)
(* added one by one, or all replaced at once.  A domain name is a sequence of  *)
(* labels; the wildcard *.x is <<"*", "x">>, and its key .x is <<"", "x">>.    *)
EXTENDS TLSTicketKeys, Naturals, TLC

CONSTANTS
  Configs,         \* the SSLContextConfigs: [certs, clientCA, default, tickets, noMatch]
                   \* with certs a sequence of [cn, san, sha1, loads]
  Hosts,           \* server names clients ask for
  InitialSeeds,    \* initialTicketSeeds of the ServerSocketConfig
  Seeds,           \* TLSTicketKeySeeds that setTLSTicketSecrets is called with
  MaxConfigs,      \* configs in one init or reset
  MaxCtxs          \* SSL contexts made

VARIABLES
  strict_,         \* strictSSL, fixed
  contexts_,       \* [ctxs, defaultCtx, defaultCtxDomainName, dnMap]
  ctx,             \* the SSL contexts made: config and ticket manager
  noMatchFn_,      \* whether the last config set up has an sniNoMatchFn
  last,            \* the last operation and how it ended
  dirty            \* an addSSLContextConfig threw halfway since the last reset

vars == <<strict_, contexts_, ctx, noMatchFn_, last, dirty>>

None == 0
NoTickets == [ticketSeeds |-> <<>>, ticketKeys |-> {}, activeKeys |-> <<>>,
              callback |-> FALSE]
Empty == [ctxs |-> <<>>, defaultCtx |-> None, defaultCtxDomainName |-> <<>>, dnMap |-> <<>>]

-----------------------------------------------------------------------------
(* The names of a certificate.                                                 *)

Cert(config) == config.certs[Len(config.certs)]
CertNames(config) == <<Cert(config).cn>> \o Cert(config).san
Crypto(config) == IF Cert(config).sha1 THEN "SHA1_SIGNATURE" ELSE "BEST_AVAILABLE"

IsWildcard(name) == Len(name) > 1 /\ name[1] = "*"
DnKey(name) == IF IsWildcard(name) THEN <<"">> \o Tail(name) ELSE name
ValidName(name) == "*" \notin Range(DnKey(name))

(* All certificates load, and have the same CN and the same SANs. *)
LoadsCertificates(config) ==
  \A i \in DOMAIN config.certs :
    /\ config.certs[i].loads
    /\ config.certs[i].cn = config.certs[1].cn
    /\ Range(config.certs[i].san) = Range(config.certs[1].san)

(* Mutation: a weak certificate takes the place of the best. *)
insertIntoDnMap_Overwrite(map, key, c, overwrite) == (key :> c) @@ map

insertIntoDnMap(map, key, c, overwrite) ==
  IF key \in DOMAIN map /\ ~overwrite THEN map ELSE (key :> c) @@ map

(* insertSSLCtxByDomainNameImpl for a valid name: under its own crypto, and a  *)
(* weak one as the best available if there is none.                            *)
insertSSLCtxByDomainName(map, name, c, crypto) ==
  LET own == insertIntoDnMap(map, <<DnKey(name), crypto>>, c, TRUE)
  IN IF crypto = "BEST_AVAILABLE" THEN own
     ELSE insertIntoDnMap(own, <<DnKey(name), "BEST_AVAILABLE">>, c, FALSE)

(* The names in their order: an invalid one throws if strict, and is skipped   *)
(* otherwise.  r is [map, threw].                                              *)
insertNames(map, config, c) ==
  FoldLeft(LAMBDA r, name :
             IF r.threw THEN r
             ELSE IF ValidName(name)
             THEN [r EXCEPT !.map = insertSSLCtxByDomainName(@, name, c, Crypto(config))]
             ELSE [r EXCEPT !.threw = strict_],
           [map |-> map, threw |-> FALSE], CertNames(config))

-----------------------------------------------------------------------------
(* insert: a star certificate must be the default and has no names to look up. *)
insert(contexts, config, c) ==
  LET r == insertNames(contexts.dnMap, config, c)
      added == [contexts EXCEPT !.ctxs = Append(@, c)]
  IN IF Cert(config).cn = <<"*">>
     THEN [contexts |-> IF config.default THEN added ELSE contexts, threw |-> ~config.default]
     ELSE IF r.threw THEN [contexts |-> [contexts EXCEPT !.dnMap = r.map], threw |-> TRUE]
     ELSE [contexts |-> [added EXCEPT !.dnMap = r.map,
                                      !.defaultCtxDomainName =
                                        IF config.default THEN Cert(config).cn ELSE @],
           threw |-> FALSE]

(* setupTicketManager of the new context. *)
setupTicketManager(config, seeds) ==
  IF config.tickets THEN setTLSTicketKeySeeds(seeds) ELSE NoTickets

(* ctxSetupByOpensslFeature of the context made last: the config's noMatchFn   *)
(* is taken, and there may be one default.                                     *)
ctxSetupByOpensslFeature(s, config) ==
  LET set == [s EXCEPT !.noMatch = config.noMatch]
  IN IF ~config.default THEN set
     ELSE IF s.contexts.defaultCtx # None THEN [set EXCEPT !.threw = TRUE]
     ELSE [set EXCEPT !.contexts.defaultCtx = Len(s.ctx)]

(* addSSLContextConfig into s = [contexts, ctx, noMatch, threw]: certificates  *)
(* and client CA are loaded, the ticket manager and the features set up, and   *)
(* the context inserted.                                                       *)
addConfig(s, config, seeds) ==
  LET made == [s EXCEPT !.ctx = Append(@, [config |-> config,
                                           manager |-> setupTicketManager(config, seeds)])]
      set == ctxSetupByOpensslFeature(made, config)
      r == insert(set.contexts, config, Len(set.ctx))
  IN IF s.threw THEN s
     ELSE IF ~LoadsCertificates(config) \/ ~config.clientCA THEN [s EXCEPT !.threw = TRUE]
     ELSE IF set.threw THEN set
     ELSE [set EXCEPT !.contexts = r.contexts, !.threw = r.threw]

From(contexts) == [contexts |-> contexts, ctx |-> ctx, noMatch |-> noMatchFn_, threw |-> FALSE]
addAll(contexts, configs, seeds) ==
  FoldLeft(LAMBDA s, config : addConfig(s, config, seeds), From(contexts), configs)

ConfigLists == UNION {[1..n -> Configs] : n \in 1..MaxConfigs}
Room(n) == Len(ctx) + n <= MaxCtxs

-----------------------------------------------------------------------------
(* Acceptor::init: strictSSL passes the error on; otherwise the acceptor runs  *)
(* without TLS contexts.  Without an error there must be a default (CHECK).    *)
init(configs) ==
  LET s == addAll(contexts_, configs, InitialSeeds) IN
  /\ last = "start" /\ Room(Len(configs))
  /\ ctx' = s.ctx /\ noMatchFn_' = s.noMatch /\ dirty' = (s.threw /\ strict_)
  /\ \/ s.threw /\ strict_ /\ last' = "exit" /\ contexts_' = s.contexts
     \/ s.threw /\ ~strict_ /\ last' = "init" /\ contexts_' = Empty
     \/ ~s.threw /\ contexts_' = s.contexts
        /\ last' = IF s.contexts.defaultCtx = None THEN "exit" ELSE "init"

Running == last \notin {"start", "exit"}

(* Acceptor::addSSLContextConfig, also by an sniNoMatchFn: the ticket seeds    *)
(* are the initial ones.  What a config that throws has done stays done.       *)
addSSLContextConfig(config) ==
  LET s == addConfig(From(contexts_), config, InitialSeeds) IN
  /\ Running /\ Room(1)
  /\ contexts_' = s.contexts /\ ctx' = s.ctx /\ noMatchFn_' = s.noMatch
  /\ last' = IF s.threw THEN "failedAdd" ELSE "add"
  /\ dirty' = (dirty \/ (s.threw /\ s.contexts # contexts_))

(* Mutation: the seeds the acceptor started with. *)
oldTicketSeeds_Initial == InitialSeeds

(* The seeds of the first context that has a ticket manager, if any. *)
HasManager(c) == ctx[c].config.tickets
oldTicketSeeds ==
  LET i == SelectInSeq(contexts_.ctxs, HasManager)
  IN IF i = 0 THEN [old |-> <<>>, current |-> <<>>, new |-> <<>>]
     ELSE getTLSTicketKeySeeds(ctx[contexts_.ctxs[i]].manager)

(* Acceptor::resetSSLContextConfigs: the new contexts are built aside and      *)
(* swapped in; an error keeps the old ones.                                    *)
resetSSLContextConfigs(configs) ==
  LET s == addAll(Empty, configs, oldTicketSeeds) IN
  /\ Running /\ Room(Len(configs))
  /\ ctx' = s.ctx /\ noMatchFn_' = s.noMatch
  /\ contexts_' = IF s.threw THEN contexts_ ELSE s.contexts
  /\ dirty' = IF s.threw THEN dirty ELSE FALSE
  /\ last' = IF s.threw THEN "failedReset" ELSE "reset"

(* Acceptor::setTLSTicketSecrets, reloadTLSTicketKeys: in every context of the *)
(* list that has a ticket manager.                                             *)
setTLSTicketSecrets(seeds) ==
  /\ Running
  /\ ctx' = [c \in DOMAIN ctx |->
               IF c \in Range(contexts_.ctxs) /\ HasManager(c)
               THEN [ctx[c] EXCEPT !.manager = setTLSTicketKeySeeds(seeds)] ELSE ctx[c]]
  /\ last' = "secrets"
  /\ UNCHANGED <<contexts_, noMatchFn_, dirty>>

-----------------------------------------------------------------------------
(* Lookup.                                                                     *)

(* getSSLCtxBySuffix: one level up. *)
bySuffix(host, crypto) ==
  LET key == <<<<"">> \o Tail(host), crypto>>
  IN IF Len(host) > 1 /\ key \in DOMAIN contexts_.dnMap THEN contexts_.dnMap[key] ELSE None

(* getSSLCtx: the exact name (getSSLCtxByExactDomain), then one level up. *)
getSSLCtx(host, crypto) ==
  IF <<host, crypto>> \in DOMAIN contexts_.dnMap THEN contexts_.dnMap[<<host, crypto>>]
  ELSE bySuffix(host, crypto)

(* serverNameCallback: a client without SNI is taken to ask for the default's  *)
(* name, and one without SNI or SHA256 for weak crypto, before the best.       *)
serverNameCallback(host, crypto) ==
  IF getSSLCtx(host, crypto) # None THEN getSSLCtx(host, crypto)
  ELSE getSSLCtx(host, "BEST_AVAILABLE")

(* A name nobody has: the noMatchFn gets one chance to add the right config.   *)
sniNoMatch(host, config) ==
  /\ noMatchFn_ /\ serverNameCallback(host, "BEST_AVAILABLE") = None
  /\ contexts_.defaultCtx # None
  /\ addSSLContextConfig(config)

-----------------------------------------------------------------------------
Init ==
  /\ strict_ \in BOOLEAN /\ contexts_ = Empty /\ ctx = <<>> /\ noMatchFn_ = FALSE
  /\ last = "start" /\ dirty = FALSE

Next ==
  \/ \E configs \in ConfigLists : init(configs) \/ resetSSLContextConfigs(configs)
  \/ \E config \in Configs : \/ addSSLContextConfig(config)
                             \/ \E host \in Hosts : sniNoMatch(host, config)
  \/ \E seeds \in Seeds : setTLSTicketSecrets(seeds)

Spec == Init /\ [][Next /\ UNCHANGED strict_]_vars

-----------------------------------------------------------------------------
Served == Range(contexts_.dnMap) \cup ({contexts_.defaultCtx} \ {None})

TypeOK ==
  /\ Range(contexts_.ctxs) \cup Served \subseteq DOMAIN ctx
  /\ \A c \in DOMAIN ctx : ctx[c].config \in Configs
  /\ noMatchFn_ \in BOOLEAN /\ dirty \in BOOLEAN

(* What a name matches: itself, or one level of a wildcard. *)
Matches(name, host) ==
  name = host \/ (IsWildcard(name) /\ Len(host) > 1 /\ Tail(name) = Tail(host))

(* The context SNI should select among the ones in ctxs, from the rules in     *)
(* SSLContextManager.h:229: an exact name before a wildcard; for each, the     *)
(* latest with good crypto, else the earliest weak one; for a weak request the *)
(* latest weak one, else the best.                                             *)
Best(have, crypto) ==
  LET good == {c \in have : Crypto(ctx[c].config) = "BEST_AVAILABLE"}
      weak == have \ good
      Latest(S) == CHOOSE c \in S : \A d \in S : d <= c
      Earliest(S) == CHOOSE c \in S : \A d \in S : c <= d
  IN IF crypto = "SHA1_SIGNATURE" THEN IF weak = {} THEN None ELSE Latest(weak)
     ELSE IF good # {} THEN Latest(good) ELSE IF weak # {} THEN Earliest(weak) ELSE None
Reference(host, crypto) ==
  LET valid(c) == IF Cert(ctx[c].config).cn = <<"*">> THEN {}
                  ELSE {n \in Range(CertNames(ctx[c].config)) : ValidName(n)}
      exact == {c \in Range(contexts_.ctxs) : host \in valid(c)}
      wild == {c \in Range(contexts_.ctxs) :
                 \E n \in valid(c) : IsWildcard(n) /\ Matches(n, host)}
      order == <<Best(exact, crypto), Best(wild, crypto),
                 Best(exact, "BEST_AVAILABLE"), Best(wild, "BEST_AVAILABLE")>>
      i == SelectInSeq(order, LAMBDA c : c # None)
  IN IF i = 0 THEN None ELSE order[i]

(* Whatever was added, overwritten and reset, the map that serverNameCallback  *)
(* searches selects the context that the list of contexts says it should.      *)
SniBestMatch ==
  ~dirty => \A host \in Hosts, crypto \in {"BEST_AVAILABLE", "SHA1_SIGNATURE"} :
              serverNameCallback(host, crypto) = Reference(host, crypto)

(* A context is never served for a name its certificate does not have, even    *)
(* after a config that threw halfway.                                          *)
SniCoversName ==
  \A host \in Hosts, crypto \in {"BEST_AVAILABLE", "SHA1_SIGNATURE"} :
    LET c == serverNameCallback(host, crypto) IN
    c # None => \E name \in Range(CertNames(ctx[c].config)) : Matches(name, host)

(* "will keep old config" (Acceptor.cpp:128): a reset that fails leaves every  *)
(* context served as it was, and one that succeeds leaves none of before.      *)
ResetIsAtomic ==
  [][/\ last' = "failedReset" => contexts_' = contexts_
     /\ last' = "reset" => Served' \cap DOMAIN ctx = {}]_vars

(* A reset does not invalidate the tickets clients hold: those the first       *)
(* context with tickets has issued decrypt under every new one.                *)
ResetKeepsTickets ==
  [][last' = "reset" =>
       LET i == SelectInSeq(contexts_.ctxs, HasManager) IN
       i # 0 => \A c \in Served' : ctx'[c].config.tickets =>
                  \A key \in EncryptionKeys(ctx[contexts_.ctxs[i]].manager) :
                    Decrypts(ctx'[c].manager, key)]_vars

(* A context decrypts the tickets it issues, and issues them under current     *)
(* seeds only: under none that is new (other servers may not have it yet) or   *)
(* old (about to be forgotten).                                                *)
IssuesCurrentTickets ==
  \A c \in DOMAIN ctx :
    LET m == ctx[c].manager
        seeds == getTLSTicketKeySeeds(m)
    IN \A key \in EncryptionKeys(m) :
         Decrypts(m, key) /\ key \in Range(seeds.current) \ Range(seeds.old)

(* Seeds that isValidRotation accepts keep the tickets issued before alive, as *)
(* long as there is still a key to encrypt with.                               *)
ValidRotationKeepsTickets ==
  [][\A c \in DOMAIN ctx :
       LET m == ctx[c].manager
           n == ctx'[c].manager
       IN isValidRotation(getTLSTicketKeySeeds(m), getTLSTicketKeySeeds(n)) /\ n.callback =>
            \A key \in EncryptionKeys(m) : Decrypts(n, key)]_vars
=============================================================================
