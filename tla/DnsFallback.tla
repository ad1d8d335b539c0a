------------------------------ MODULE DnsFallback ------------------------------
(***************************************************************************)
(* The interposed name lookup of dns-fallback/dns-fallback.c: the system   *)
(* resolver is asked first; only if it could not be reached, and only if   *)
(* the user named resolvers, the name is asked of those, for every address *)
(* type in turn, over UDP and then over DNS-over-HTTPS.                    *)
(*                                                                         *)
(* A reply is taken for what parse_resp makes of it: records of other      *)
(* types are skipped and counted nowhere. Both doors, getaddrinfo and      *)
(* gethostbyname, and the freeaddrinfo that tells our chains from the      *)
(* system's are modelled; the caller makes one lookup at a time.           *)
(***************************************************************************)
EXTENDS Naturals, Sequences

CONSTANTS
  Word,          \* words of a list of resolvers
  Literal,       \* those that are IPv4 literals
  List,          \* the lists the environment and the configuration may hold
  ListCap,       \* words that fit in dnsbuf
  MaxResolvers,  \* MAX_RESOLVERS
  MaxAddr,       \* MAXADDR
  MaxRecords,    \* records of one type in a reply, a bound of the model
  MaxLookups,    \* lookups of the caller, a bound of the model
  Tls            \* does the program override unpin_readurl?

ASSUME DnsAssumption ==
  /\ Literal \subseteq Word /\ List \subseteq Seq(Word)
  /\ ListCap \in Nat /\ MaxResolvers \in Nat \ {0} /\ MaxAddr \in Nat \ {0}
  /\ MaxRecords \in Nat /\ MaxLookups \in Nat
  /\ Tls \in BOOLEAN

VARIABLES
  pc,            \* the control point of the lookup; "idle" between lookups
  door,          \* "getaddrinfo" or "gethostbyname"
  node,          \* what the name is
  family,        \* hints->ai_family
  os,            \* what the system resolver said
  answer,        \* what the caller was told
  env,           \* $UNPIN_DNS
  config,        \* the `dns` value of the configuration file, as last read
  resolvers,     \* the list this lookup uses
  qi, si,        \* the loop counters: query type and resolver
  final,         \* did a resolver answer the question?
  reached,       \* did anything come back in this round?
  udpDead, dohDead,
  addrs,         \* the addresses in the block, in order
  ours, real,    \* chains allocated, by this code and by the system's
  heldOurs, heldReal,  \* chains of either kind the caller holds
  hostent,       \* the static hostent gethostbyname returns
  lookups,       \* the lookups made
  asked          \* history: the exchanges of this lookup, in order

question == <<door, node, family, lookups>>
call == <<question, os, answer>>
settings == <<env, config, resolvers>>
round == <<qi, si, final, reached, udpDead, dohDead, addrs, asked>>
memory == <<ours, real, heldOurs, heldReal, hostent>>
vars == <<pc, call, settings, round, memory>>

Failures == {"no_name", "caller_error", "unreachable"}

\* A name that encode_qname refuses (an empty or too long label) is a name
\* to want_fallback all the same. "numeric" stands for AI_NUMERICHOST as well.
Nodes == {"name", "unencodable", "numeric"}

Types == IF family = "v4" THEN <<"A">>
         ELSE IF family = "v6" THEN <<"AAAA">>
         ELSE <<"A", "AAAA">>

\* Over UDP a datagram that is short or carries another id is no reply.
Reply ==
  {[kind |-> k, n |-> 0] : k \in {"silence", "nxdomain", "error"}} \cup
  [kind : {"answer", "garbage"}, n : 0..MaxRecords]

Init ==
  /\ pc = "idle"
  /\ door = "getaddrinfo" /\ node = "name" /\ family = "any"
  /\ os = "ok" /\ answer = "none"
  /\ env \in List /\ config = <<>> /\ resolvers = <<>>
  /\ qi = 1 /\ si = 1 /\ final = FALSE /\ reached = FALSE
  /\ udpDead = FALSE /\ dohDead = FALSE
  /\ addrs = <<>> /\ asked = <<>>
  /\ ours = 0 /\ real = 0 /\ heldOurs = 0 /\ heldReal = 0
  /\ hostent = <<>> /\ lookups = 0

-------------------------------------------------------------------------------
(* The list of resolvers.                                                  *)

IsLiteral(w) == w \in Literal

\* Mutant of Tokenize: host names are let through.
TokenizeAll(list) ==
  IF Len(list) > ListCap THEN <<>>
  ELSE SubSeq(list, 1, IF MaxResolvers < Len(list) THEN MaxResolvers
                       ELSE Len(list))

\* out[n] is what has been taken once n words are read.
Tokenize(list) ==
  LET out[n \in 0 .. Len(list)] ==
        IF n = 0 THEN <<>>
        ELSE IF IsLiteral(list[n]) /\ Len(out[n - 1]) < MaxResolvers
             THEN Append(out[n - 1], list[n])
             ELSE out[n - 1]
  IN  IF Len(list) > ListCap THEN <<>> ELSE out[Len(list)]

-------------------------------------------------------------------------------
(* The caller, and the system resolver.                                    *)

Lookup(d, n, f) ==
  /\ pc = "idle" /\ lookups < MaxLookups /\ lookups' = lookups + 1
  /\ d = "gethostbyname" => f = "v4"
  /\ pc' = "os"
  /\ door' = d /\ node' = n /\ family' = f /\ answer' = "none"
  /\ qi' = 1 /\ si' = 1 /\ final' = FALSE /\ reached' = FALSE
  /\ udpDead' = FALSE /\ dohDead' = FALSE
  /\ addrs' = <<>> /\ asked' = <<>> /\ resolvers' = <<>>
  /\ UNCHANGED <<os, env, config, memory>>

\* The caller is told `result`.
Answer(result) == pc' = "idle" /\ answer' = result

OsFinds ==
  /\ pc = "os"
  /\ os' = "ok" /\ Answer("ok")
  /\ IF door = "getaddrinfo"
     THEN real' = real + 1 /\ heldReal' = heldReal + 1
     ELSE UNCHANGED <<real, heldReal>>
  /\ UNCHANGED <<question, settings, round, ours, heldOurs, hostent>>

\* Mutant of OsFails: any failure of the system resolver is taken over.
OsFailsAny(f) ==
  /\ pc = "os"
  /\ os' = f
  /\ IF node # "numeric"
     THEN pc' = "list" /\ UNCHANGED answer
     ELSE Answer(f)
  /\ UNCHANGED <<question, settings, round, memory>>

OsFails(f) ==
  /\ pc = "os"
  /\ os' = f
  /\ IF f = "unreachable" /\ node # "numeric"
     THEN pc' = "list" /\ UNCHANGED answer
     ELSE Answer(f)
  /\ UNCHANGED <<question, settings, round, memory>>

\* resolver_list: the configuration is read only if the environment names none.
Resolvers ==
  /\ pc = "list"
  /\ IF Tokenize(env) # <<>>
     THEN resolvers' = Tokenize(env) /\ UNCHANGED config
     ELSE config' \in List /\ resolvers' = Tokenize(config')
  /\ IF resolvers' = <<>> THEN Answer(os) ELSE pc' = "alloc" /\ UNCHANGED answer
  /\ UNCHANGED <<question, os, env, round, memory>>

Alloc ==
  /\ pc = "alloc"
  /\ \/ pc' = "type" /\ ours' = ours + 1 /\ UNCHANGED answer
     \/ Answer(os) /\ UNCHANGED ours
  /\ UNCHANGED <<question, os, settings, round, real, heldOurs, heldReal,
                 hostent>>

-------------------------------------------------------------------------------
(* One address type after the other.                                       *)

NextType == qi' = qi + 1 /\ pc' = "type"

StartType ==
  /\ pc = "type" /\ qi <= Len(Types) /\ Len(addrs) < MaxAddr
  /\ si' = 1 /\ final' = FALSE /\ reached' = FALSE
  /\ IF node = "unencodable" \/ (udpDead /\ dohDead)
     THEN NextType
     ELSE pc' = (IF udpDead THEN "doh" ELSE "udp") /\ UNCHANGED qi
  /\ UNCHANGED <<call, settings, udpDead, dohDead, addrs, asked, memory>>

\* parse_resp: what is kept of a reply, and whether it settles the question.
\* A reply is not read past the record that fills the block.
Room == MaxAddr - Len(addrs)
Holds(reply) == reply.n < Room

Kept(reply) == IF Holds(reply) THEN reply.n ELSE Room

\* Mutant of Settles: only an address settles the question.
SettlesFound(reply) == reply.kind = "answer" /\ reply.n > 0

Settles(reply) ==
  \/ reply.kind \in {"answer", "nxdomain"}
  \/ reply.kind = "garbage" /\ ~Holds(reply)

\* Mutant of Exchange: a resolver that is silent is asked again at once over the
\* other transport.
ExchangeAgain(via, reply) ==
  /\ si <= Len(resolvers) /\ ~final
  /\ IF reply.kind = "silence"
     THEN si' = si /\ pc' \in {"udp", "doh"} \ {via}
     ELSE si' = si + 1 /\ pc' = pc
  /\ final' = Settles(reply)
  /\ reached' = (reached \/ reply.kind # "silence")
  /\ addrs' = addrs \o [i \in 1..Kept(reply) |->
                          [type |-> Types[qi], from |-> resolvers[si]]]
  /\ asked' = asked
  /\ UNCHANGED <<call, settings, qi, udpDead, dohDead, memory>>

Exchange(via, reply) ==
  /\ si <= Len(resolvers) /\ ~final
  /\ si' = si + 1
  /\ final' = Settles(reply)
  /\ reached' = (reached \/ reply.kind # "silence")
  /\ addrs' = addrs \o [i \in 1..Kept(reply) |->
                          [type |-> Types[qi], from |-> resolvers[si]]]
  /\ asked' = Append(asked, [via |-> via, type |-> Types[qi],
                             to |-> resolvers[si], got |-> reply])
  /\ UNCHANGED <<pc, call, settings, qi, udpDead, dohDead, memory>>

AskUdp(reply) == pc = "udp" /\ Exchange("udp", reply)

\* Without a TLS stack unpin_readurl is the stub that fails.
AskDoh(reply) ==
  /\ pc = "doh" /\ (Tls \/ reply.kind = "silence")
  /\ Exchange("doh", reply)

\* Mutant of EndUdp: that all were silent is forgotten.
EndUdpForgets ==
  /\ pc = "udp" /\ (si > Len(resolvers) \/ final)
  /\ si' = 1 /\ reached' = FALSE
  /\ IF final \/ dohDead THEN NextType ELSE pc' = "doh" /\ UNCHANGED qi
  /\ UNCHANGED <<call, settings, final, udpDead, dohDead, addrs, asked, memory>>

EndUdp ==
  /\ pc = "udp" /\ (si > Len(resolvers) \/ final)
  /\ udpDead' = ~reached
  /\ si' = 1 /\ reached' = FALSE
  /\ IF final \/ dohDead THEN NextType ELSE pc' = "doh" /\ UNCHANGED qi
  /\ UNCHANGED <<call, settings, final, dohDead, addrs, asked, memory>>

EndDoh ==
  /\ pc = "doh" /\ (si > Len(resolvers) \/ final)
  /\ dohDead' = ~reached
  /\ NextType
  /\ UNCHANGED <<call, settings, si, final, reached, udpDead, addrs, asked,
                 memory>>

-------------------------------------------------------------------------------
(* The end of a lookup, and of a chain.                                    *)

AllAsked == pc = "type" /\ (qi > Len(Types) \/ Len(addrs) >= MaxAddr)

\* Mutant of FindNothing: the block stays allocated.
FindNothingLeaks ==
  /\ AllAsked /\ addrs = <<>>
  /\ Answer(os)
  /\ UNCHANGED <<question, os, settings, round, memory>>

FindNothing ==
  /\ AllAsked /\ addrs = <<>>
  /\ ours' = ours - 1
  /\ Answer(os)
  /\ UNCHANGED <<question, os, settings, round, real, heldOurs, heldReal,
                 hostent>>

\* Mutant of Find: what the last resolver left open is not used.
FindSettled ==
  /\ AllAsked /\ addrs # <<>>
  /\ IF ~final
     THEN Answer(os) /\ ours' = ours - 1 /\ UNCHANGED <<heldOurs, hostent>>
     ELSE /\ Answer("ok")
          /\ IF door = "getaddrinfo"
             THEN heldOurs' = heldOurs + 1 /\ UNCHANGED <<ours, hostent>>
             ELSE hostent' = addrs /\ ours' = ours - 1 /\ UNCHANGED heldOurs
  /\ UNCHANGED <<question, os, settings, round, real, heldReal>>

\* gethostbyname copies the addresses and frees the chain itself.
Find ==
  /\ AllAsked /\ addrs # <<>>
  /\ Answer("ok")
  /\ IF door = "getaddrinfo"
     THEN heldOurs' = heldOurs + 1 /\ UNCHANGED <<ours, hostent>>
     ELSE hostent' = addrs /\ ours' = ours - 1 /\ UNCHANGED heldOurs
  /\ UNCHANGED <<question, os, settings, round, real, heldReal>>

\* freeaddrinfo tells by the magic word in front of a chain whose it is.
FreeAddrInfo ==
  /\ pc = "idle"
  /\ \/ /\ heldOurs > 0
        /\ heldOurs' = heldOurs - 1 /\ ours' = ours - 1
        /\ UNCHANGED <<heldReal, real>>
     \/ /\ heldReal > 0
        /\ heldReal' = heldReal - 1 /\ real' = real - 1
        /\ UNCHANGED <<heldOurs, ours>>
  /\ UNCHANGED <<pc, call, settings, round, hostent>>

-------------------------------------------------------------------------------
Caller ==
  \/ FreeAddrInfo
  \/ \E d \in {"getaddrinfo", "gethostbyname"}, n \in Nodes,
        f \in {"v4", "v6", "any"} : Lookup(d, n, f)

Step ==
  \/ OsFinds \/ \E f \in Failures : OsFails(f)
  \/ Resolvers \/ Alloc \/ StartType
  \/ \E reply \in Reply : AskUdp(reply) \/ AskDoh(reply)
  \/ EndUdp \/ EndDoh \/ FindNothing \/ Find

Next == Caller \/ Step

Spec == Init /\ [][Next]_vars

\* A lookup runs; an exchange ends, with a timeout if nothing else.
FairSpec == Spec /\ WF_vars(Step)

-------------------------------------------------------------------------------
Address == [type : {"A", "AAAA"}, from : Word]

TypeOK ==
  /\ pc \in {"idle", "os", "list", "alloc", "type", "udp", "doh"}
  /\ door \in {"getaddrinfo", "gethostbyname"} /\ node \in Nodes
  /\ family \in {"v4", "v6", "any"}
  /\ os \in Failures \cup {"ok"} /\ answer \in Failures \cup {"ok", "none"}
  /\ env \in List /\ config \in List \cup {<<>>}
  /\ resolvers \in Seq(Word) /\ Len(resolvers) <= MaxResolvers
  /\ qi \in 1..3 /\ si \in 1..(MaxResolvers + 1)
  /\ final \in BOOLEAN /\ reached \in BOOLEAN
  /\ udpDead \in BOOLEAN /\ dohDead \in BOOLEAN
  /\ addrs \in Seq(Address) /\ Len(addrs) <= MaxAddr
  /\ ours \in Nat /\ real \in Nat /\ heldOurs \in Nat /\ heldReal \in Nat
  /\ lookups \in 0..MaxLookups
  /\ hostent \in Seq(Address) /\ Len(hostent) <= MaxAddr
  /\ asked \in Seq([via : {"udp", "doh"}, type : {"A", "AAAA"}, to : Word,
                    got : Reply])

Asks == DOMAIN asked
Silent(i) == asked[i].got.kind = "silence"
Settled(i) == asked[i].got.kind \in {"answer", "nxdomain"}
SameType(i, j) == asked[i].type = asked[j].type

\* The fallback is opt-in: nobody but a resolver the user named, by address, is
\* ever asked, and only for a name the system could not ask anybody about; the
\* environment, if it names one, overrides the configuration. (A resolver named
\* by host would have its own name looked up here again.)
Named(list) == {list[i] : i \in DOMAIN list} \cap Literal

OptIn ==
  asked # <<>> =>
    /\ os = "unreachable" /\ node = "name"
    /\ \A i \in Asks : asked[i].to \in Named(env) \cup Named(config)
    /\ Len(env) <= ListCap /\ Named(env) # {} =>
         \A i \in Asks : asked[i].to \in Named(env)

\* Once a resolver answered, be it that there is no such name, nobody else is
\* asked the same question.
AnswerRespected ==
  \A i, j \in Asks : i < j /\ SameType(i, j) => ~Settled(i)

\* A transport on which every resolver was silent is not waited for again in
\* the same lookup, whatever is asked next.
AllSilent(via, q) ==
  /\ \A r \in DOMAIN resolvers :
       \E i \in Asks : asked[i].via = via /\ asked[i].type = q
                       /\ asked[i].to = resolvers[r]
  /\ \A i \in Asks : asked[i].via = via /\ asked[i].type = q => Silent(i)

SilencePaidOnce ==
  \A via \in {"udp", "doh"} :
    resolvers # <<>> => ~(AllSilent(via, "A") /\ AllSilent(via, "AAAA"))

\* DoH is the second stage: it is used for a question only after every resolver
\* was asked it over UDP in vain, or was silent over UDP for the one before.
DohIsSecond ==
  \A i \in Asks : asked[i].via = "doh" =>
    \A r \in DOMAIN resolvers :
      \E j \in Asks : /\ j < i /\ asked[j].via = "udp"
                      /\ asked[j].to = resolvers[r] /\ ~Settled(j)
                      /\ SameType(i, j) \/ Silent(j)

\* Resolvers are asked in turn, and a transport that is dead costs once.
AskedInTurn == SilencePaidOnce /\ DohIsSecond

\* An address that arrived is never lost, nor one made up: a lookup that took
\* over succeeds exactly if some reply carried a record of the type asked; and
\* the addresses never outgrow the block.
Arrived == \E i \in Asks : asked[i].got.n > 0

AnswerFaithful ==
  /\ Len(addrs) <= MaxAddr
  /\ pc = "idle" /\ answer # "none" =>
       answer = IF os = "ok" \/ Arrived THEN "ok" ELSE os

\* Every chain is somebody's: the caller's, or the lookup's until it ends; and
\* every chain is freed by the allocator it came from.
InLookup == IF pc \in {"type", "udp", "doh"} THEN 1 ELSE 0

ChainsAccounted == ours = heldOurs + InLookup /\ real = heldReal

\* Every lookup ends.
EveryLookupEnds == pc # "idle" ~> pc = "idle"
===============================================================================
