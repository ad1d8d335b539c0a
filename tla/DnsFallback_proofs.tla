-------------------------- MODULE DnsFallback_proofs --------------------------
(***************************************************************************)
(* Safety of the interposed lookup for any lists of resolvers, any sizes   *)
(* of the block and any number of lookups; and what config_dns finds in    *)
(* any file whose lines fit into its buffer.                               *)
(***************************************************************************)
EXTENDS DnsLookup, LexicalPath_proofs

-------------------------------------------------------------------------------
(* What is taken of a list: literals of it and nothing else, not too many, *)
(* and at least one if there is one.                                       *)

\* The loop of tokenize_resolvers, one word after the other.
Takes(list, out) ==
  [n \in 0 .. Len(list) |->
     IF n = 0 THEN <<>>
     ELSE IF IsLiteral(list[n]) /\ Len(out[n - 1]) < MaxResolvers
          THEN Append(out[n - 1], list[n])
          ELSE out[n - 1]]

\* The recursive function of Tokenize is one that its equation determines.
IsTaking(list, out) ==
  /\ out = Takes(list, out)
  /\ Len(list) <= ListCap => Tokenize(list) = out[Len(list)]

LEMMA TakesDefined ==
  ASSUME NEW list \in Seq(Word)
  PROVE  \E out : IsTaking(list, out)
<1> DEFINE N == Len(list)
           X == Seq(Word)
           Took(w, s) == IF IsLiteral(w) /\ Len(s) < MaxResolvers
                         THEN Append(s, w) ELSE s
           G == [n \in 1 .. N |-> [s \in X |-> Took(list[n], s)]]
           out == CHOOSE f : f = Takes(list, f)
<1>1. \A n \in 1 .. N, s \in X : Took(list[n], s) \in X
  OBVIOUS
<1>2. G \in [1 .. N -> [X -> X]]
  <2> HIDE DEF Took, X
  <2> QED BY <1>1
<1>3. <<>> \in X /\ N \in Nat
  OBVIOUS
<1>4. PICK f : Folds(f, X, <<>>, N, G)
  <2> HIDE DEF G, X, N
  <2> QED BY <1>2, <1>3, FoldExists
<1>5. f \in [0 .. N -> X] /\ f[0] = <<>>
      /\ \A n \in 1 .. N : f[n] = G[n][f[n - 1]]
  <2> HIDE DEF G, X, N
  <2> QED BY <1>4 DEF Folds
<1>6. \A n \in 1 .. N : f[n - 1] \in X /\ f[n] = Took(list[n], f[n - 1])
  <2> TAKE n \in 1 .. N
  <2> HIDE DEF Took, X
  <2>1. f[n - 1] \in X
    BY <1>3, <1>5
  <2>2. G[n] = [s \in X |-> Took(list[n], s)]
    OBVIOUS
  <2> HIDE DEF G
  <2> QED BY <1>5, <2>1, <2>2
<1>7. f = Takes(list, f)
  <2> HIDE DEF G, X
  <2>1. ASSUME NEW n \in 0 .. N PROVE f[n] = Takes(list, f)[n]
    <3>1. CASE n = 0 BY <1>5, <3>1 DEF Takes
    <3>2. CASE n # 0
      <4>1. n \in 1 .. N BY <1>3, <3>2
      <4> QED BY <1>6, <3>2, <4>1 DEF Takes
    <3> QED BY <3>1, <3>2
  <2>2. f = [n \in 0 .. N |-> f[n]]
    BY <1>5
  <2>3. Takes(list, f) = [n \in 0 .. N |-> Takes(list, f)[n]]
    BY DEF Takes
  <2> QED BY <2>1, <2>2, <2>3
<1>8. out = Takes(list, out)
  BY <1>7
<1>9. Tokenize(list) = IF Len(list) > ListCap THEN <<>> ELSE out[N]
  BY DEF Tokenize, Takes
<1>10. Len(list) <= ListCap => Tokenize(list) = out[N]
  <2> HIDE DEF out
  <2> QED BY <1>9, DnsAssumption
<1> QED
  <2> HIDE DEF out
  <2> QED BY <1>8, <1>10 DEF IsTaking

\* Literals are taken and nothing else, at most MaxResolvers, and at least one
\* if there is one in a list that fits.
LEMMA TokenizeFacts ==
  ASSUME NEW list \in Seq(Word)
  PROVE  /\ Tokenize(list) \in Seq(Word)
         /\ Len(Tokenize(list)) <= MaxResolvers
         /\ \A r \in DOMAIN Tokenize(list) : Tokenize(list)[r] \in Named(list)
         /\ Len(list) <= ListCap /\ Named(list) # {} => Tokenize(list) # <<>>
<1>1. PICK out : IsTaking(list, out)
  BY TakesDefined
<1> DEFINE N == Len(list)
           Good(n) == /\ out[n] \in Seq(Word) /\ Len(out[n]) <= MaxResolvers
                      /\ \A r \in DOMAIN out[n] : out[n][r] \in Named(list)
                      /\ out[n] = <<>> => \A k \in 1 .. n : list[k] \notin Literal
           T == {n \in Nat : n <= N => Good(n)}
<1>2. N \in Nat /\ MaxResolvers \in Nat \ {0} /\ ListCap \in Nat
  BY DnsAssumption
<1>3. Good(0)
  <2>1. out[0] = <<>>
    BY <1>1, <1>2 DEF IsTaking, Takes
  <2> QED BY <2>1, <1>2
<1>4. ASSUME NEW n \in Nat, n + 1 <= N, Good(n) PROVE Good(n + 1)
  <2>1. out[n + 1] = IF IsLiteral(list[n + 1]) /\ Len(out[n]) < MaxResolvers
                     THEN Append(out[n], list[n + 1]) ELSE out[n]
    <3>1. n + 1 \in 0 .. N /\ n + 1 # 0 /\ (n + 1) - 1 = n
      BY <1>2, <1>4
    <3>2. out = Takes(list, out)
      BY <1>1 DEF IsTaking
    <3>3. Takes(list, out)[n + 1] =
            IF IsLiteral(list[n + 1]) /\ Len(out[n]) < MaxResolvers
            THEN Append(out[n], list[n + 1]) ELSE out[n]
      BY <3>1 DEF Takes
    <3> QED BY <3>2, <3>3
  <2>2. list[n + 1] \in Word /\ n + 1 \in DOMAIN list
    BY <1>2, <1>4
  <2>3. CASE IsLiteral(list[n + 1]) /\ Len(out[n]) < MaxResolvers
    <3>1. list[n + 1] \in Named(list)
      BY <2>2, <2>3 DEF Named, IsLiteral
    <3>2. out[n + 1] = Append(out[n], list[n + 1])
      BY <2>1, <2>3
    <3>3. /\ out[n + 1] \in Seq(Word) /\ out[n + 1] # <<>>
          /\ Len(out[n + 1]) = Len(out[n]) + 1
          /\ \A r \in 1 .. Len(out[n]) : out[n + 1][r] = out[n][r]
          /\ out[n + 1][Len(out[n]) + 1] = list[n + 1]
      BY <1>4, <2>2, <3>2, AppendProperties
    <3>4. DOMAIN out[n] = 1 .. Len(out[n])
          /\ DOMAIN out[n + 1] = 1 .. Len(out[n]) + 1 /\ Len(out[n]) \in Nat
      BY <1>4, <3>3
    <3>5. \A r \in DOMAIN out[n + 1] : out[n + 1][r] \in Named(list)
      BY <1>4, <3>1, <3>3, <3>4, SMTT(30)
    <3> QED BY <1>2, <2>3, <3>3, <3>4, <3>5
  <2>4. CASE ~(IsLiteral(list[n + 1]) /\ Len(out[n]) < MaxResolvers)
    <3>1. out[n + 1] = out[n]
      BY <2>1, <2>4
    <3>2. out[n] = <<>> => Len(out[n]) < MaxResolvers
      BY <1>2
    <3>3. out[n] = <<>> => list[n + 1] \notin Literal
      BY <2>4, <3>2 DEF IsLiteral
    <3> QED BY <1>4, <3>1, <3>3
  <2> QED BY <2>3, <2>4
<1>5. Good(N)
  <2> HIDE DEF Good, N
  <2>1. T \in SUBSET Nat /\ 0 \in T /\ \A n \in T : n + 1 \in T
    BY <1>2, <1>3, <1>4
  <2>2. T = Nat
    <3> HIDE DEF T
    <3> QED BY <2>1, Induct
  <2> QED BY <1>2, <2>2
<1>6. CASE N <= ListCap
  <2>1. Tokenize(list) = out[N]
    BY <1>1, <1>6 DEF IsTaking
  <2>2. Named(list) # {} => \E k \in 1 .. N : list[k] \in Literal
    BY DEF Named
  <2> QED BY <1>5, <2>1, <2>2
<1>7. CASE ~(N <= ListCap)
  <2>1. Tokenize(list) = <<>>
    BY <1>2, <1>7 DEF Tokenize
  <2> QED BY <1>2, <1>7, <2>1
<1> QED BY <1>6, <1>7



-------------------------------------------------------------------------------
(* Type correctness, with what a chain belongs to: that `ours` stays a     *)
(* number rests on the chain the lookup itself holds.                      *)

Rounds == {"type", "udp", "doh"}
Asking == {"udp", "doh"}

\* A question is one of the types of the family asked for.
InTypes == pc \in Asking => qi <= Len(Types)

Sound == TypeOK /\ InTypes /\ ChainsAccounted

Ask == [via : {"udp", "doh"}, type : {"A", "AAAA"}, to : Word, got : Reply]

LEMMA ReplyFacts ==
  ASSUME NEW reply \in Reply
  PROVE  /\ reply.n \in Nat
         /\ reply.kind \in {"silence", "nxdomain", "error", "answer", "garbage"}
         /\ reply.kind \in {"silence", "nxdomain", "error"} => reply.n = 0
BY DnsAssumption DEF Reply

LEMMA TypesFacts ==
  /\ Types \in Seq({"A", "AAAA"}) /\ Len(Types) \in {1, 2}
  /\ \A q \in 1 .. Len(Types) : Types[q] \in {"A", "AAAA"}
  /\ \A q \in 1 .. Len(Types) : q > 1 => Types[1] = "A" /\ Types[q] = "AAAA"
<1>1. Types = <<"A">> \/ Types = <<"AAAA">> \/ Types = <<"A", "AAAA">>
  BY DEF Types
<1>2. CASE Types = <<"A">>
  BY <1>2
<1>3. CASE Types = <<"AAAA">>
  BY <1>3
<1>4. CASE Types = <<"A", "AAAA">>
  <2>1. Len(Types) = 2 /\ Types[1] = "A" /\ Types[2] = "AAAA"
    BY <1>4
  <2>2. \A q \in 1 .. Len(Types) : q = 1 \/ q = 2
    BY <2>1
  <2>3. Types \in Seq({"A", "AAAA"})
    BY <1>4
  <2> QED BY <2>1, <2>2, <2>3
<1> QED BY <1>1, <1>2, <1>3, <1>4

LEMMA TypesStay == family' = family => Types' = Types
BY DEF Types

\* What is kept of a reply fits the block; something is, if it brought
\* anything and there was room.
LEMMA KeptFacts ==
  ASSUME TypeOK, NEW reply \in Reply
  PROVE  /\ Kept(reply) \in Nat /\ Len(addrs) + Kept(reply) <= MaxAddr
         /\ reply.n = 0 => Kept(reply) = 0
         /\ reply.n > 0 /\ Len(addrs) < MaxAddr => Kept(reply) > 0
<1>1. Len(addrs) \in Nat /\ Len(addrs) <= MaxAddr /\ MaxAddr \in Nat
  BY DnsAssumption DEF TypeOK
<1>2. reply.n \in Nat
  BY ReplyFacts
<1> QED BY <1>1, <1>2 DEF Kept, Holds, Room

\* The addresses after an exchange.
LEMMA AddrsAfter ==
  ASSUME TypeOK, InTypes, pc \in Asking, NEW via, NEW reply \in Reply,
         Exchange(via, reply)
  PROVE  /\ addrs' \in Seq(Address)
         /\ Len(addrs') = Len(addrs) + Kept(reply)
<1> DEFINE new == [k \in 1..Kept(reply) |->
                     [type |-> Types[qi], from |-> resolvers[si]]]
<1>1. Types[qi] \in {"A", "AAAA"} /\ resolvers[si] \in Word
  BY TypesFacts DEF InTypes, TypeOK, Exchange, Asking
<1>2. [type |-> Types[qi], from |-> resolvers[si]] \in Address
  BY <1>1 DEF Address
<1>3. Kept(reply) \in Nat
  BY KeptFacts
<1>4. new \in Seq(Address) /\ Len(new) = Kept(reply)
  BY <1>2, <1>3
<1>5. addrs' = addrs \o new
  BY DEF Exchange
<1>6. addrs \in Seq(Address)
  BY DEF TypeOK
<1> HIDE DEF new
<1> QED BY <1>4, <1>5, <1>6, ConcatProperties

\* What an exchange adds to the history, and that it changes nothing there.
LEMMA AskedAfter ==
  ASSUME TypeOK, InTypes, pc \in Asking, NEW via \in Asking,
         NEW reply \in Reply, Exchange(via, reply)
  PROVE  /\ Len(asked) \in Nat /\ asked' \in Seq(Ask) /\ asked' # <<>>
         /\ Asks = 1 .. Len(asked) /\ Asks' = 1 .. Len(asked) + 1
         /\ \A j \in 1 .. Len(asked) : asked'[j] = asked[j]
         /\ asked'[Len(asked) + 1].via = via
         /\ asked'[Len(asked) + 1].type = Types[qi]
         /\ asked'[Len(asked) + 1].to = resolvers[si]
         /\ asked'[Len(asked) + 1].got = reply
<1> DEFINE e == [via |-> via, type |-> Types[qi], to |-> resolvers[si],
                 got |-> reply]
<1>1. Types[qi] \in {"A", "AAAA"} /\ resolvers[si] \in Word
  BY TypesFacts DEF InTypes, TypeOK, Exchange, Asking
<1>2. e \in Ask
  BY <1>1 DEF Ask, Asking
<1>3. asked \in Seq(Ask)
  BY DEF TypeOK, Ask
<1>4. asked' = Append(asked, e)
  BY DEF Exchange
<1> HIDE DEF e
<1>5. /\ asked' \in Seq(Ask) /\ asked' # <<>> /\ Len(asked') = Len(asked) + 1
      /\ \A j \in 1 .. Len(asked) : asked'[j] = asked[j]
      /\ asked'[Len(asked) + 1] = e
  BY <1>2, <1>3, <1>4, AppendProperties
<1>6. /\ Len(asked) \in Nat /\ DOMAIN asked = 1 .. Len(asked)
      /\ DOMAIN asked' = 1 .. Len(asked')
  BY <1>3, <1>5, LenProperties
<1> QED BY <1>2, <1>5, <1>6 DEF Asks, e

LEMMA NothingYet ==
  /\ <<>> \in Seq(Address) /\ <<>> \in Seq(Word) /\ Len(<<>>) = 0
  /\ <<>> \in Seq([via : {"udp", "doh"}, type : {"A", "AAAA"}, to : Word,
                   got : Reply])
OBVIOUS

LEMMA SoundInit == Init => Sound
<1> SUFFICES ASSUME Init PROVE Sound
  OBVIOUS
<1>1. /\ pc \in {"idle", "os", "list", "alloc", "type", "udp", "doh"}
      /\ door \in {"getaddrinfo", "gethostbyname"} /\ node \in Nodes
      /\ family \in {"v4", "v6", "any"}
      /\ os \in Failures \cup {"ok"} /\ answer \in Failures \cup {"ok", "none"}
  BY DEF Init, Nodes
<1>2. /\ final \in BOOLEAN /\ reached \in BOOLEAN
      /\ udpDead \in BOOLEAN /\ dohDead \in BOOLEAN
  BY DEF Init
<1>3. /\ resolvers \in Seq(Word) /\ Len(resolvers) <= MaxResolvers
      /\ addrs \in Seq(Address) /\ Len(addrs) <= MaxAddr
      /\ hostent \in Seq(Address) /\ Len(hostent) <= MaxAddr
      /\ asked \in Seq([via : {"udp", "doh"}, type : {"A", "AAAA"}, to : Word,
                        got : Reply])
  BY DnsAssumption, NothingYet DEF Init
<1>4. /\ env \in List /\ config \in List \cup {<<>>}
      /\ qi \in 1..3 /\ si \in 1..(MaxResolvers + 1)
      /\ ours \in Nat /\ real \in Nat /\ heldOurs \in Nat /\ heldReal \in Nat
      /\ lookups \in 0..MaxLookups
  BY DnsAssumption DEF Init
<1>5. TypeOK
  BY <1>1, <1>2, <1>3, <1>4 DEF TypeOK
<1>6. InTypes /\ ChainsAccounted
  BY DEF Init, InTypes, Asking, ChainsAccounted, InLookup
<1> QED BY <1>5, <1>6 DEF Sound

LEMMA SoundStep ==
  ASSUME Sound, [Next]_vars
  PROVE  Sound'
<1> USE DnsAssumption DEF Sound, InTypes, ChainsAccounted, InLookup, Asking
<1>1. CASE UNCHANGED vars
  BY <1>1, TypesStay DEF vars, call, question, settings, round, memory, TypeOK,
     Asks
<1>2. ASSUME FreeAddrInfo PROVE Sound'
  BY <1>2, TypesStay DEF FreeAddrInfo, call, question, settings, round, memory,
     TypeOK
<1>3. ASSUME NEW d \in {"getaddrinfo", "gethostbyname"}, NEW n \in Nodes,
             NEW f \in {"v4", "v6", "any"}, Lookup(d, n, f)
      PROVE  Sound'
  <2>1. /\ resolvers' \in Seq(Word) /\ Len(resolvers') <= MaxResolvers
        /\ addrs' \in Seq(Address) /\ Len(addrs') <= MaxAddr
        /\ asked' \in Seq([via : {"udp", "doh"}, type : {"A", "AAAA"}, to : Word,
                           got : Reply])
    BY <1>3, NothingYet DEF Lookup
  <2>2. /\ lookups' \in 0..MaxLookups /\ qi' \in 1..3
        /\ si' \in 1..(MaxResolvers + 1)
    BY <1>3 DEF Lookup, TypeOK
  <2>3. TypeOK'
    BY <1>3, <2>1, <2>2 DEF Lookup, memory, TypeOK
  <2> QED BY <1>3, <2>3 DEF Lookup, memory
<1>4. ASSUME OsFinds PROVE Sound'
  BY <1>4 DEF OsFinds, Answer, question, settings, round, memory, TypeOK
<1>5. ASSUME NEW f \in Failures, OsFails(f) PROVE Sound'
  BY <1>5 DEF OsFails, Answer, question, settings, round, memory, TypeOK
<1>6. ASSUME Resolvers PROVE Sound'
  <2>1. resolvers' \in Seq(Word) /\ Len(resolvers') <= MaxResolvers
    BY <1>6, TokenizeFacts DEF Resolvers, TypeOK
  <2>2. config' \in List \cup {<<>>}
    BY <1>6 DEF Resolvers, TypeOK
  <2> QED BY <1>6, <2>1, <2>2 DEF Resolvers, Answer, question, round, memory,
             TypeOK
<1>7. ASSUME Alloc PROVE Sound'
  BY <1>7 DEF Alloc, Answer, question, settings, round, memory, TypeOK
<1>8. ASSUME StartType PROVE Sound'
  <2>1. qi \in 1 .. 2 /\ Types' = Types
    BY <1>8, TypesFacts, TypesStay, SMTT(30) DEF StartType, TypeOK, call, question
  <2>2. /\ pc' \in Rounds /\ qi' \in 1..3 /\ si' \in 1..(MaxResolvers + 1)
        /\ pc' \in Asking => qi' <= Len(Types)
    BY <1>8, <2>1 DEF StartType, NextType, Rounds
  <2>3. TypeOK'
    BY <1>8, <2>2, ZenonT(40)
       DEF StartType, call, question, settings, memory, TypeOK, Rounds
  <2> QED BY <1>8, <2>1, <2>2, <2>3
          DEF StartType, call, question, memory, Rounds
<1>9. ASSUME NEW reply \in Reply, AskUdp(reply) \/ AskDoh(reply) PROVE Sound'
  <2>1. PICK via \in Asking : pc = via /\ Exchange(via, reply)
    BY <1>9 DEF AskUdp, AskDoh
  <2>2. pc' = pc /\ UNCHANGED <<call, settings, qi, udpDead, dohDead, memory>>
    BY <2>1 DEF Exchange
  <2>3. addrs' \in Seq(Address) /\ Len(addrs') <= MaxAddr
    BY <2>1, AddrsAfter, KeptFacts
  <2>4. asked' \in Seq(Ask)
    BY <2>1, AskedAfter
  <2>5. si' \in 1 .. MaxResolvers + 1 /\ final' \in BOOLEAN /\ reached' \in BOOLEAN
    BY <2>1 DEF Exchange, TypeOK, Settles
  <2>6. TypeOK'
    BY <2>2, <2>3, <2>4, <2>5 DEF Ask, TypeOK, call, question, settings, memory
  <2>7. InTypes' /\ ChainsAccounted'
    BY <2>2, TypesStay DEF call, question, memory
  <2> QED BY <2>6, <2>7
<1>10. ASSUME EndUdp PROVE Sound'
  <2>1. qi \in 1 .. 2 /\ Types' = Types
    BY <1>10, TypesFacts, TypesStay, SMTT(30) DEF EndUdp, TypeOK, call, question
  <2>2. /\ pc' \in Rounds /\ qi' \in 1..3 /\ si' \in 1..(MaxResolvers + 1)
        /\ pc' \in Asking => qi' <= Len(Types)
    BY <1>10, <2>1 DEF EndUdp, NextType, Rounds
  <2>3. TypeOK'
    BY <1>10, <2>2, ZenonT(40)
       DEF EndUdp, call, question, settings, memory, TypeOK, Rounds
  <2> QED BY <1>10, <2>1, <2>2, <2>3
          DEF EndUdp, call, question, memory, Rounds
<1>11. ASSUME EndDoh PROVE Sound'
  <2>1. qi \in 1 .. 2 /\ Types' = Types
    BY <1>11, TypesFacts, TypesStay, SMTT(30) DEF EndDoh, TypeOK, call, question
  <2>2. /\ pc' \in Rounds /\ qi' \in 1..3 /\ si' \in 1..(MaxResolvers + 1)
        /\ pc' \in Asking => qi' <= Len(Types)
    <3>1. pc' = "type" /\ qi' = qi + 1 /\ si' = si
      BY <1>11 DEF EndDoh, NextType
    <3>2. si \in 1..(MaxResolvers + 1)
      BY DEF TypeOK
    <3> QED BY <2>1, <3>1, <3>2 DEF Rounds
  <2>3. TypeOK'
    BY <1>11, <2>2, ZenonT(40)
       DEF EndDoh, call, question, settings, memory, TypeOK, Rounds
  <2> QED BY <1>11, <2>1, <2>2, <2>3
          DEF EndDoh, call, question, memory, Rounds
<1>12. ASSUME FindNothing PROVE Sound'
  BY <1>12 DEF FindNothing, AllAsked, Answer, question, settings, round, TypeOK
<1>13. ASSUME Find PROVE Sound'
  BY <1>13 DEF Find, AllAsked, Answer, question, settings, round, TypeOK
<1> QED BY <1>1, <1>2, <1>3, <1>4, <1>5, <1>6, <1>7, <1>8, <1>9, <1>10, <1>11,
           <1>12, <1>13 DEF Next, Caller, Step

-------------------------------------------------------------------------------
(* The inductive invariant: what the lookup is about, whom it asks, what   *)
(* it has heard of the question it is at, and what it knows of the two     *)
(* transports.                                                             *)

\* Where the lookup is says why it goes on.
Progress ==
  /\ pc \in {"os", "list", "alloc"} =>
       asked = <<>> /\ addrs = <<>> /\ ~udpDead /\ ~dohDead /\ qi = 1
  /\ pc \in {"list", "alloc", "type", "udp", "doh"} =>
       os = "unreachable" /\ node # "numeric"
  /\ pc \in {"udp", "doh"} => node # "unencodable"
  /\ asked # <<>> => os = "unreachable" /\ node = "name"

\* The resolvers are those of the environment, or else of the configuration.
Consented ==
  /\ asked # <<>> \/ pc \in {"alloc", "type", "udp", "doh"} =>
       resolvers = IF Tokenize(env) # <<>> THEN Tokenize(env)
                   ELSE Tokenize(config)
  /\ \A i \in Asks : \E r \in DOMAIN resolvers : asked[i].to = resolvers[r]

\* The types asked so far; the one at hand only in the middle of its round.
TypesAsked ==
  pc \in Rounds =>
    \A i \in Asks : \E q \in 1 .. Len(Types) :
      asked[i].type = Types[q] /\ q <= qi /\ (pc = "type" => q < qi)

\* Exchanges over a transport, for a type.
Over(via, t) == {i \in Asks : asked[i].via = via /\ asked[i].type = t}
Quiet(via, t) == Over(via, t) # {} /\ \A i \in Over(via, t) : Silent(i)
Dead(via) == IF via = "udp" THEN udpDead ELSE dohDead

\* In a round: nobody has answered unless it is over, `reached` is what was
\* heard, and the resolvers before si have been asked.
Round ==
  pc \in Asking =>
    /\ ~final => \A i \in Asks : asked[i].type = Types[qi] => ~Settled(i)
    /\ final => reached
    /\ reached <=> \E i \in Over(pc, Types[qi]) : ~Silent(i)
    /\ \A r \in 1 .. si - 1 :
         \E i \in Over(pc, Types[qi]) : asked[i].to = resolvers[r]
    /\ pc = "udp" => Over("doh", Types[qi]) = {}
    /\ ~Dead(pc)

\* Every resolver was asked over UDP in vain, for this type or to no reply.
InVain(mustBeSilent) ==
  \A r \in DOMAIN resolvers :
    \E j \in Asks : /\ asked[j].via = "udp" /\ asked[j].to = resolvers[r]
                    /\ ~Settled(j)
                    /\ (~mustBeSilent /\ asked[j].type = Types[qi]) \/ Silent(j)

\* DoH comes second, and a dead transport was one on which all were silent.
Vain ==
  /\ pc = "doh" => InVain(FALSE)
  /\ pc \in Rounds /\ udpDead => InVain(TRUE)

\* A transport that was silent for the first type is dead from then on,
SilentIsDead ==
  \A via \in Asking :
    /\ pc \in Rounds /\ Quiet(via, Types[1])
    /\ qi > 1 \/ (pc = "doh" /\ via = "udp")
    => Dead(via)

\* and is not used for the second.
SilentIsLast ==
  \A via \in Asking : Quiet(via, "A") => Over(via, "AAAA") = {}

\* The addresses kept are those that arrived.
KeepsAll == Arrived <=> addrs # <<>>

LEMMA ProgressStep ==
  ASSUME Sound, Progress, [Next]_vars
  PROVE  Progress'
<1> USE DEF Progress, Sound
<1>1. CASE UNCHANGED vars
  BY <1>1 DEF vars, call, question, round
<1>2. CASE FreeAddrInfo
  BY <1>2 DEF FreeAddrInfo, call, question, round
<1>3. ASSUME NEW d \in {"getaddrinfo", "gethostbyname"}, NEW n \in Nodes,
             NEW f \in {"v4", "v6", "any"}, Lookup(d, n, f)
      PROVE  Progress'
  BY <1>3 DEF Lookup
<1>4. CASE OsFinds
  BY <1>4 DEF OsFinds, Answer, question, round
<1>5. ASSUME NEW f \in Failures, OsFails(f) PROVE Progress'
  BY <1>5 DEF OsFails, Answer, question, round
<1>6. CASE Resolvers
  BY <1>6 DEF Resolvers, Answer, question, round
<1>7. CASE Alloc
  BY <1>7 DEF Alloc, Answer, question, round
<1>8. CASE StartType
  BY <1>8 DEF StartType, NextType, call, question
<1>9. ASSUME NEW reply \in Reply, AskUdp(reply) \/ AskDoh(reply)
      PROVE  Progress'
  BY <1>9 DEF AskUdp, AskDoh, Exchange, call, question, TypeOK, Nodes
<1>10. CASE EndUdp
  BY <1>10 DEF EndUdp, NextType, call, question
<1>11. CASE EndDoh
  BY <1>11 DEF EndDoh, NextType, call, question
<1>12. CASE FindNothing
  BY <1>12 DEF FindNothing, Answer, question, round
<1>13. CASE Find
  BY <1>13 DEF Find, Answer, question, round
<1> QED BY <1>1, <1>2, <1>3, <1>4, <1>5, <1>6, <1>7, <1>8, <1>9, <1>10, <1>11,
           <1>12, <1>13 DEF Next, Caller, Step

LEMMA ConsentedStep ==
  ASSUME Sound, Progress, Consented, [Next]_vars
  PROVE  Consented'
<1> USE DEF Consented, Asks
<1>1. CASE UNCHANGED vars
  BY <1>1 DEF vars, settings, round
<1>2. CASE FreeAddrInfo
  BY <1>2 DEF FreeAddrInfo, settings, round
<1>3. ASSUME NEW d \in {"getaddrinfo", "gethostbyname"}, NEW n \in Nodes,
             NEW f \in {"v4", "v6", "any"}, Lookup(d, n, f)
      PROVE  Consented'
  BY <1>3 DEF Lookup
<1>4. CASE OsFinds
  BY <1>4 DEF OsFinds, Answer, settings, round
<1>5. ASSUME NEW f \in Failures, OsFails(f) PROVE Consented'
  BY <1>5 DEF OsFails, Answer, settings, round
<1>6. CASE Resolvers
  BY <1>6 DEF Resolvers, Answer, round, Progress
<1>7. CASE Alloc
  BY <1>7 DEF Alloc, Answer, settings, round
<1>8. CASE StartType
  BY <1>8 DEF StartType, NextType, settings
<1>9. ASSUME NEW reply \in Reply, AskUdp(reply) \/ AskDoh(reply)
      PROVE  Consented'
  <2>1. PICK via \in Asking : pc = via /\ Exchange(via, reply)
    BY <1>9 DEF AskUdp, AskDoh, Asking
  <2>2. UNCHANGED <<pc, settings>>
    BY <2>1 DEF Exchange
  <2>3. si \in DOMAIN resolvers
    BY <2>1 DEF Exchange, Sound, TypeOK
  <2>4. /\ Asks = 1 .. Len(asked) /\ Asks' = 1 .. Len(asked) + 1
        /\ \A j \in 1 .. Len(asked) : asked'[j] = asked[j]
        /\ asked'[Len(asked) + 1].to = resolvers[si] /\ Len(asked) \in Nat
    BY <2>1, AskedAfter DEF Sound
  <2>5. \A j \in Asks' : \E r \in DOMAIN resolvers : asked'[j].to = resolvers[r]
    BY <2>3, <2>4
  <2> QED BY <2>1, <2>2, <2>5 DEF settings, Asking
<1>10. CASE EndUdp
  BY <1>10 DEF EndUdp, NextType, settings
<1>11. CASE EndDoh
  BY <1>11 DEF EndDoh, NextType, settings
<1>12. CASE FindNothing
  BY <1>12 DEF FindNothing, AllAsked, Answer, settings, round
<1>13. CASE Find
  BY <1>13 DEF Find, AllAsked, Answer, settings, round
<1> QED BY <1>1, <1>2, <1>3, <1>4, <1>5, <1>6, <1>7, <1>8, <1>9, <1>10, <1>11,
           <1>12, <1>13 DEF Next, Caller, Step

\* What the proofs below use of an exchange.
LEMMA Exchanged ==
  ASSUME Sound, NEW reply \in Reply, AskUdp(reply) \/ AskDoh(reply)
  PROVE  /\ pc \in Asking /\ Exchange(pc, reply)
         /\ UNCHANGED <<pc, qi, udpDead, dohDead>>
         /\ UNCHANGED settings /\ UNCHANGED call
         /\ Types' = Types /\ qi \in 1 .. Len(Types)
         /\ Len(asked) \in Nat
         /\ Asks = 1 .. Len(asked) /\ Asks' = 1 .. Len(asked) + 1
         /\ \A j \in 1 .. Len(asked) : asked'[j] = asked[j]
         /\ asked'[Len(asked) + 1].via = pc
         /\ asked'[Len(asked) + 1].type = Types[qi]
         /\ asked'[Len(asked) + 1].to = resolvers[si]
         /\ asked'[Len(asked) + 1].got = reply
<1>1. pc \in Asking /\ Exchange(pc, reply)
  BY DEF AskUdp, AskDoh, Asking
<1>2. /\ UNCHANGED <<pc, qi, udpDead, dohDead>>
      /\ UNCHANGED settings /\ UNCHANGED call
  BY <1>1 DEF Exchange
<1>3. Types' = Types
  BY <1>2, TypesStay DEF call, question
<1>4. qi \in 1 .. Len(Types)
  BY <1>1, TypesFacts DEF Sound, InTypes, TypeOK
<1> QED BY <1>1, <1>2, <1>3, <1>4, AskedAfter DEF Sound

LEMMA TypesAskedStep ==
  ASSUME Sound, Progress, TypesAsked, [Next]_vars
  PROVE  TypesAsked'
<1> USE DEF TypesAsked, Rounds
<1>1. CASE UNCHANGED vars
  BY <1>1, TypesStay DEF vars, call, question, round, Asks
<1>2. CASE FreeAddrInfo
  BY <1>2 DEF FreeAddrInfo
<1>3. ASSUME NEW d \in {"getaddrinfo", "gethostbyname"}, NEW n \in Nodes,
             NEW f \in {"v4", "v6", "any"}, Lookup(d, n, f)
      PROVE  TypesAsked'
  BY <1>3 DEF Lookup
<1>4. CASE OsFinds
  BY <1>4 DEF OsFinds, Answer
<1>5. ASSUME NEW f \in Failures, OsFails(f) PROVE TypesAsked'
  BY <1>5 DEF OsFails, Answer
<1>6. CASE Resolvers
  BY <1>6 DEF Resolvers, Answer
<1>7. CASE Alloc
  BY <1>7 DEF Alloc, Answer, round, Progress, Asks
<1>8. CASE StartType
  <2>1. Types' = Types /\ asked' = asked /\ qi \in Nat
    BY <1>8, TypesStay DEF StartType, call, question, Sound, TypeOK
  <2>2. pc = "type" /\ (qi' = qi \/ qi' = qi + 1)
        /\ (pc' = "type" => qi' = qi + 1)
    BY <1>8 DEF StartType, NextType
  <2> SUFFICES ASSUME NEW i \in Asks
               PROVE  \E q \in 1 .. Len(Types) :
                        /\ asked[i].type = Types[q]
                        /\ q <= qi' /\ (pc' = "type" => q < qi')
    BY <2>1 DEF Asks
  <2>3. PICK q \in 1 .. Len(Types) : asked[i].type = Types[q] /\ q < qi
    BY <2>2
  <2>4. q \in Nat
    BY <2>3, TypesFacts
  <2>5. q <= qi' /\ (pc' = "type" => q < qi')
    BY <2>1, <2>2, <2>3, <2>4
  <2> QED BY <2>3, <2>5
<1>9. ASSUME NEW reply \in Reply, AskUdp(reply) \/ AskDoh(reply)
      PROVE  TypesAsked'
  BY <1>9, Exchanged DEF Asking
<1>10. CASE EndUdp
  <2>1. Types' = Types /\ asked' = asked /\ qi \in Nat /\ pc = "udp"
    BY <1>10, TypesStay DEF EndUdp, call, question, Sound, TypeOK
  <2>2. \/ pc' = "type" /\ qi' = qi + 1
        \/ pc' = "doh" /\ qi' = qi
    BY <1>10 DEF EndUdp, NextType
  <2> QED BY <2>1, <2>2, TypesFacts DEF Asks
<1>11. CASE EndDoh
  <2>1. Types' = Types /\ asked' = asked /\ qi \in Nat /\ pc = "doh"
    BY <1>11, TypesStay DEF EndDoh, call, question, Sound, TypeOK
  <2>2. pc' = "type" /\ qi' = qi + 1
    BY <1>11 DEF EndDoh, NextType
  <2> QED BY <2>1, <2>2, TypesFacts DEF Asks
<1>12. CASE FindNothing
  BY <1>12 DEF FindNothing, Answer
<1>13. CASE Find
  BY <1>13 DEF Find, Answer
<1> QED BY <1>1, <1>2, <1>3, <1>4, <1>5, <1>6, <1>7, <1>8, <1>9, <1>10, <1>11,
           <1>12, <1>13 DEF Next, Caller, Step

LEMMA KeepsAllStep ==
  ASSUME Sound, KeepsAll, [Next]_vars
  PROVE  KeepsAll'
<1> USE DEF KeepsAll, Arrived, Asks
<1>1. ASSUME asked' = asked, addrs' = addrs PROVE KeepsAll'
  BY <1>1
<1>2. CASE UNCHANGED vars
  BY <1>1, <1>2 DEF vars, round
<1>3. ASSUME NEW d \in {"getaddrinfo", "gethostbyname"}, NEW n \in Nodes,
             NEW f \in {"v4", "v6", "any"}, Lookup(d, n, f)
      PROVE  KeepsAll'
  BY <1>3 DEF Lookup
<1>4. ASSUME NEW reply \in Reply, AskUdp(reply) \/ AskDoh(reply)
      PROVE  KeepsAll'
  <2>1. /\ addrs' \in Seq(Address) /\ Len(addrs') = Len(addrs) + Kept(reply)
        /\ addrs \in Seq(Address) /\ Len(addrs) <= MaxAddr
    BY <1>4, Exchanged, AddrsAfter DEF Sound, TypeOK
  <2>2. MaxAddr \in Nat \ {0} /\ reply.n \in Nat /\ Kept(reply) \in Nat
    BY DnsAssumption, ReplyFacts, KeptFacts DEF Sound
  <2>3. addrs' # <<>> <=> addrs # <<>> \/ reply.n > 0
    BY <2>1, <2>2, KeptFacts DEF Sound
  <2>4. Arrived' <=> Arrived \/ reply.n > 0
    BY <1>4, Exchanged, SMTT(30)
  <2> QED BY <2>3, <2>4
<1>5. ASSUME FreeAddrInfo \/ OsFinds \/ (\E f \in Failures : OsFails(f))
             \/ Resolvers \/ Alloc \/ StartType \/ EndUdp \/ EndDoh
             \/ FindNothing \/ Find
      PROVE  asked' = asked /\ addrs' = addrs
  BY <1>5 DEF FreeAddrInfo, OsFinds, OsFails, Resolvers, Alloc, StartType,
     EndUdp, EndDoh, FindNothing, Find, round
<1> QED BY <1>1, <1>2, <1>3, <1>4, <1>5 DEF Next, Caller, Step

\* No type is asked for twice.
LEMMA TypesDiffer ==
  ASSUME NEW q \in 1 .. Len(Types), NEW r \in 1 .. Len(Types), q < r
  PROVE  Types[q] # Types[r] /\ q = 1 /\ Types[q] = "A" /\ Types[r] = "AAAA"
<1>1. q = 1 /\ r = 2 /\ r > 1
  BY TypesFacts
<1> QED BY <1>1, TypesFacts

\* Before its round starts nothing has been asked for a type.
LEMMA NotYetAsked ==
  ASSUME Sound, TypesAsked, pc = "type", qi <= Len(Types)
  PROVE  \A i \in Asks : asked[i].type # Types[qi]
<1> SUFFICES ASSUME NEW i \in Asks PROVE asked[i].type # Types[qi]
  OBVIOUS
<1>1. PICK q \in 1 .. Len(Types) : asked[i].type = Types[q] /\ q < qi
  BY DEF TypesAsked, Rounds
<1>2. qi \in 1 .. Len(Types)
  BY TypesFacts DEF Sound, TypeOK
<1> QED BY <1>1, <1>2, TypesDiffer

\* The history by transport and type, after an exchange.
LEMMA OverAfter ==
  ASSUME Sound, NEW reply \in Reply, AskUdp(reply) \/ AskDoh(reply),
         NEW via, NEW t, NEW n, n = Len(asked) + 1
  PROVE  /\ Over(via, t)' = IF via = pc /\ t = Types[qi]
                            THEN Over(via, t) \cup {n} ELSE Over(via, t)
         /\ Asks' = Asks \cup {n} /\ n \notin Asks
         /\ \A j \in Asks : /\ Silent(j)' <=> Silent(j)
                            /\ Settled(j)' <=> Settled(j)
         /\ Silent(n)' <=> reply.kind = "silence"
         /\ Settled(n)' <=> reply.kind \in {"answer", "nxdomain"}
<1>1. \A j \in Asks : asked'[j] = asked[j]
  BY Exchanged
<1>2. Asks' = Asks \cup {n} /\ n \notin Asks
  BY Exchanged
<1>3. Over(via, t)' = IF via = pc /\ t = Types[qi]
                      THEN Over(via, t) \cup {n} ELSE Over(via, t)
  BY <1>1, <1>2, Exchanged DEF Over
<1>4. \A j \in Asks : /\ Silent(j)' <=> Silent(j)
                      /\ Settled(j)' <=> Settled(j)
  BY <1>1 DEF Silent, Settled
<1>5. /\ Silent(n)' <=> reply.kind = "silence"
      /\ Settled(n)' <=> reply.kind \in {"answer", "nxdomain"}
  BY Exchanged DEF Silent, Settled
<1> QED BY <1>2, <1>3, <1>4, <1>5

LEMMA RoundStep ==
  ASSUME Sound, TypesAsked, Round, [Next]_vars
  PROVE  Round'
<1> USE DEF Round
<1>1. CASE UNCHANGED vars
  BY <1>1, TypesStay
     DEF vars, call, question, settings, round, Asks, Asking, Over, Silent,
         Settled, Dead
<1>2. CASE StartType
  <2> SUFFICES ASSUME pc' \in Asking PROVE Round'
    OBVIOUS
  <2>1. /\ Types' = Types /\ asked' = asked /\ qi' = qi /\ qi <= Len(Types)
        /\ pc = "type" /\ si' = 1 /\ ~final' /\ ~reached'
        /\ udpDead' = udpDead /\ dohDead' = dohDead
        /\ ~(udpDead /\ dohDead) /\ pc' = (IF udpDead THEN "doh" ELSE "udp")
    BY <1>2, TypesStay DEF StartType, NextType, Asking, call, question
  <2>2. \A i \in Asks : asked[i].type # Types[qi]
    BY <2>1, NotYetAsked
  <2>3. Asks' = Asks /\ \A via \in Asking : Over(via, Types[qi])' = {}
    BY <2>1, <2>2 DEF Over, Asks
  <2>4. ~Dead(pc)'
    BY <2>1 DEF Dead
  <2>5. Over(pc, Types[qi])' = {} /\ Over("doh", Types[qi])' = {}
    BY <2>1, <2>2 DEF Over, Asks
  <2> QED BY <2>1, <2>2, <2>3, <2>4, <2>5
<1>3. ASSUME NEW reply \in Reply, AskUdp(reply) \/ AskDoh(reply)
      PROVE  Round'
  <2>1. PICK v, t, n : v = pc /\ t = Types[qi] /\ n = Len(asked) + 1
    OBVIOUS
  <2>2. /\ v \in Asking /\ pc' = v /\ Types'[qi'] = t
        /\ UNCHANGED <<udpDead, dohDead>> /\ resolvers' = resolvers
    BY <1>3, <2>1, Exchanged DEF settings
  <2>3. /\ ~final /\ si' = si + 1 /\ (final' <=> Settles(reply))
        /\ (reached' <=> reached \/ reply.kind # "silence")
        /\ si \in Nat \ {0}
    <3>1. Exchange(pc, reply)
      BY <1>3, Exchanged
    <3>2. ~final /\ si' = si + 1 /\ si \in Nat \ {0}
      BY <3>1 DEF Exchange, Sound, TypeOK
    <3>3. final' <=> Settles(reply)
      BY <3>1 DEF Exchange
    <3>4. reached' <=> reached \/ reply.kind # "silence"
      BY <3>1 DEF Exchange
    <3> QED BY <3>2, <3>3, <3>4
  <2>4. /\ Over(v, t)' = Over(v, t) \cup {n}
        /\ v = "udp" => Over("doh", t)' = Over("doh", t)
        /\ \A j \in Asks : (Silent(j)' <=> Silent(j)) /\ (Settled(j)' <=> Settled(j))
        /\ Silent(n)' <=> reply.kind = "silence"
        /\ Settled(n)' <=> reply.kind \in {"answer", "nxdomain"}
        /\ Asks' = Asks \cup {n} /\ n \notin Asks
    BY <1>3, <2>1, OverAfter
  <2>5. /\ \A j \in Asks : asked'[j] = asked[j]
        /\ asked'[n].to = resolvers[si]
    BY <1>3, <2>1, Exchanged
  <2>6. Over(v, t) \subseteq Asks
    BY DEF Over
  <2>7. ~final' => \A j \in Asks' : asked'[j].type = t => ~Settled(j)'
    BY <2>1, <2>3, <2>4, <2>5, <2>2 DEF Settles
  <2>8. final' => reached'
    BY <2>3, ReplyFacts, KeptFacts DEF Settles
  <2>9. reached' <=> \E j \in Over(v, t)' : ~Silent(j)'
    BY <2>1, <2>2, <2>3, <2>4, <2>6
  <2>10. ASSUME NEW r \in 1 .. si' - 1
         PROVE  \E j \in Over(v, t)' : asked'[j].to = resolvers[r]
    <3>1. CASE r = si
      BY <2>4, <2>5, <3>1
    <3>2. CASE r # si
      <4>1. r \in 1 .. si - 1
        BY <2>3, <3>2
      <4>2. PICK j \in Over(v, t) : asked[j].to = resolvers[r]
        BY <2>1, <2>2, <4>1
      <4> QED BY <2>4, <2>5, <2>6, <4>2
    <3> QED BY <3>1, <3>2
  <2>11. v = "udp" => Over("doh", t)' = {}
    BY <2>1, <2>2, <2>4
  <2>12. ~Dead(v)'
    BY <2>1, <2>2 DEF Dead
  <2> QED BY <2>2, <2>7, <2>8, <2>9, <2>10, <2>11, <2>12
<1>4. CASE EndUdp
  <2> SUFFICES ASSUME pc' \in Asking PROVE Round'
    OBVIOUS
  <2>1. /\ Types' = Types /\ asked' = asked /\ qi' = qi
        /\ pc = "udp" /\ pc' = "doh" /\ si' = 1 /\ ~final /\ ~final' /\ ~reached'
        /\ dohDead' = dohDead /\ ~dohDead
    BY <1>4, TypesStay DEF EndUdp, NextType, Asking, call, question
  <2>2. Over("doh", Types[qi])' = {}
    BY <2>1 DEF Over, Asks, Asking
  <2>3. \A i \in Asks' : asked'[i].type = Types'[qi'] => ~Settled(i)'
    BY <2>1 DEF Asks, Settled, Asking
  <2> QED BY <2>1, <2>2, <2>3 DEF Dead
<1>5. ASSUME pc' \notin Asking PROVE Round'
  BY <1>5
<1>6. ASSUME FreeAddrInfo \/ OsFinds \/ (\E f \in Failures : OsFails(f))
             \/ (\E d \in {"getaddrinfo", "gethostbyname"}, n \in Nodes,
                    f \in {"v4", "v6", "any"} : Lookup(d, n, f))
             \/ Resolvers \/ Alloc \/ EndDoh \/ FindNothing \/ Find
      PROVE  pc' \notin Asking
  BY <1>6 DEF FreeAddrInfo, OsFinds, OsFails, Lookup, Resolvers, Alloc,
     EndDoh, FindNothing, Find, Answer, NextType, Asking
<1> QED BY <1>1, <1>2, <1>3, <1>4, <1>5, <1>6 DEF Next, Caller, Step

\* Steps that are no exchange keep the history, or start a new one.
LEMMA HistoryKept ==
  ASSUME [Next]_vars
  PROVE  \/ asked' = asked /\ family' = family
            /\ (pc' \in Rounds => resolvers' = resolvers)
         \/ asked' = <<>> /\ addrs' = <<>> /\ pc' = "os" /\ answer' = "none"
         \/ \E reply \in Reply : AskUdp(reply) \/ AskDoh(reply)
BY DEF Next, Caller, Step, vars, call, question, settings, round, Rounds,
   FreeAddrInfo, OsFinds, OsFails, Lookup, Resolvers, Alloc, StartType,
   EndUdp, EndDoh, FindNothing, Find, Answer, NextType

LEMMA SilentIsLastStep ==
  ASSUME Sound, TypesAsked, Round, SilentIsDead, SilentIsLast, [Next]_vars
  PROVE  SilentIsLast'
<1> SUFFICES ASSUME NEW via \in Asking
             PROVE  Quiet(via, "A")' => Over(via, "AAAA")' = {}
  BY DEF SilentIsLast
<1>1. CASE asked' = asked
  BY <1>1 DEF SilentIsLast, Quiet, Over, Silent, Asks
<1>2. CASE asked' = <<>>
  BY <1>2 DEF Over, Asks
<1>3. ASSUME NEW reply \in Reply, AskUdp(reply) \/ AskDoh(reply)
      PROVE  Quiet(via, "A")' => Over(via, "AAAA")' = {}
  <2>1. PICK n : n = Len(asked) + 1
    OBVIOUS
  <2>2. /\ \A j \in Asks : Silent(j)' <=> Silent(j)
        /\ Over(via, "A")' = IF via = pc /\ Types[qi] = "A"
                             THEN Over(via, "A") \cup {n} ELSE Over(via, "A")
        /\ Over(via, "AAAA")' = IF via = pc /\ Types[qi] = "AAAA"
                                THEN Over(via, "AAAA") \cup {n}
                                ELSE Over(via, "AAAA")
    BY <1>3, <2>1, OverAfter
  <2>3. pc \in Asking /\ qi \in 1 .. Len(Types)
    BY <1>3, Exchanged
  <2>4. CASE via # pc
    BY <2>2, <2>4 DEF SilentIsLast, Quiet, Over
  <2>5. CASE via = pc /\ Types[qi] = "AAAA"
    <3>1. Over(via, "A")' = Over(via, "A")
      BY <2>2, <2>5
    <3>2. ~Quiet(via, "A")
      <4>1. CASE qi = 1
        <5>1. Over(via, "A") = {}
          <6> SUFFICES ASSUME NEW i \in Asks, asked[i].type = "A" PROVE FALSE
            BY DEF Over
          <6>1. PICK q \in 1 .. Len(Types) : asked[i].type = Types[q] /\ q <= qi
            BY <2>3 DEF TypesAsked, Rounds, Asking
          <6>2. q = 1
            BY <4>1, <6>1, TypesFacts
          <6> QED BY <2>5, <4>1, <6>1, <6>2
        <5> QED BY <5>1 DEF Quiet
      <4>2. CASE qi # 1
        <5>1. qi > 1 /\ Types[1] = "A"
          BY <2>3, <4>2, TypesFacts
        <5>2. ~Dead(via)
          BY <2>3, <2>5 DEF Round
        <5> QED BY <2>3, <2>5, <5>1, <5>2 DEF SilentIsDead, Rounds, Asking
      <4> QED BY <4>1, <4>2
    <3>3. ~Quiet(via, "A")'
      BY <2>2, <3>1, <3>2 DEF Quiet, Over
    <3> QED BY <3>3
  <2>6. CASE via = pc /\ Types[qi] = "A"
    <3>1. Over(via, "AAAA") = {}
      <4> SUFFICES ASSUME NEW i \in Asks, asked[i].type = "AAAA" PROVE FALSE
        BY DEF Over
      <4>1. PICK q \in 1 .. Len(Types) : asked[i].type = Types[q] /\ q <= qi
        BY <2>3 DEF TypesAsked, Rounds, Asking
      <4>2. q # qi
        BY <2>6, <4>1
      <4>3. q \in 1 .. Len(Types) /\ qi \in 1 .. Len(Types) /\ q < qi
        BY <2>3, <4>1, <4>2, TypesFacts
      <4> QED BY <4>1, <4>3, TypesDiffer
    <3> QED BY <2>2, <2>6, <3>1
  <2> QED BY <2>3, <2>4, <2>5, <2>6, TypesFacts
<1> QED BY <1>1, <1>2, <1>3, HistoryKept

LEMMA SilentIsDeadStep ==
  ASSUME Sound, Progress, TypesAsked, Round, SilentIsDead, [Next]_vars
  PROVE  SilentIsDead'
<1> SUFFICES ASSUME NEW via \in Asking, pc' \in Rounds, Quiet(via, Types[1])',
                    qi' > 1 \/ (pc' = "doh" /\ via = "udp")
             PROVE  Dead(via)'
  BY DEF SilentIsDead
<1>1. ASSUME UNCHANGED <<pc, family, qi, asked, udpDead, dohDead>>
      PROVE  Dead(via)'
  BY <1>1, TypesStay DEF SilentIsDead, Quiet, Over, Silent, Asks, Dead
<1>2. CASE Alloc
  <2>1. asked' = <<>>
    BY <1>2 DEF Alloc, Progress, round, Answer, Rounds
  <2> QED BY <2>1 DEF Quiet, Over, Asks
<1>3. CASE StartType
  <2>1. /\ pc = "type" /\ qi <= Len(Types)
        /\ UNCHANGED <<family, asked, udpDead, dohDead>>
        /\ pc' \in Asking => qi' = qi
    BY <1>3 DEF StartType, NextType, call, question, Asking
  <2>2. Types' = Types /\ (Quiet(via, Types[1])' <=> Quiet(via, Types[1]))
    BY <2>1, TypesStay DEF Quiet, Over, Silent, Asks
  <2>3. CASE qi = 1
    <3>1. \A i \in Asks : asked[i].type # Types[1]
      BY <2>1, <2>3, NotYetAsked
    <3> QED BY <2>2, <3>1 DEF Quiet, Over
  <2>4. CASE qi # 1
    <3>1. qi > 1
      BY <2>4 DEF Sound, TypeOK
    <3> QED BY <2>1, <2>2, <3>1 DEF SilentIsDead, Rounds, Dead
  <2> QED BY <2>3, <2>4
<1>4. ASSUME NEW reply \in Reply, AskUdp(reply) \/ AskDoh(reply)
      PROVE  Dead(via)'
  <2>1. PICK n : n = Len(asked) + 1
    OBVIOUS
  <2>2. PICK t : t = Types[1]
    OBVIOUS
  <2>3. /\ UNCHANGED <<pc, qi, udpDead, dohDead>> /\ Types' = Types
        /\ pc \in Asking /\ qi \in 1 .. Len(Types)
    BY <1>4, Exchanged
  <2>4. ~(via = pc /\ t = Types[qi])
    BY <2>2, <2>3, TypesFacts, TypesDiffer DEF Asking
  <2>5. /\ \A j \in Asks : Silent(j)' <=> Silent(j)
        /\ Over(via, t)' = Over(via, t)
    BY <1>4, <2>1, <2>4, OverAfter
  <2>6. Quiet(via, t)
    BY <2>2, <2>3, <2>5 DEF Quiet, Over
  <2> QED BY <2>2, <2>3, <2>6 DEF SilentIsDead, Dead
<1>5. CASE EndUdp
  <2>1. /\ pc = "udp" /\ UNCHANGED <<family, asked, dohDead>>
        /\ udpDead' = ~reached
        /\ qi \in 1 .. Len(Types)
    BY <1>5, TypesFacts DEF EndUdp, call, question, Sound, TypeOK, InTypes, Asking
  <2>2. Types' = Types /\ Quiet(via, Types[1])
    BY <2>1, TypesStay DEF Quiet, Over, Silent, Asks
  <2>3. CASE qi = 1
    <3>1. CASE via = "udp"
      <4>1. ~reached
        BY <2>1, <2>2, <2>3, <3>1 DEF Round, Quiet, Asking
      <4> QED BY <2>1, <3>1, <4>1 DEF Dead
    <3>2. CASE via = "doh"
      BY <2>1, <2>2, <2>3, <3>2 DEF Round, Quiet, Asking
    <3> QED BY <3>1, <3>2 DEF Asking
  <2>4. CASE qi # 1
    <3>1. qi > 1
      BY <2>1, <2>4
    <3>2. Dead(via) /\ ~udpDead
      BY <2>1, <2>2, <3>1 DEF SilentIsDead, Rounds, Round, Asking, Dead
    <3> QED BY <2>1, <3>2 DEF Dead, Asking
  <2> QED BY <2>3, <2>4
<1>6. CASE EndDoh
  <2>1. /\ pc = "doh" /\ UNCHANGED <<family, asked, udpDead>>
        /\ dohDead' = ~reached
        /\ qi \in 1 .. Len(Types)
    BY <1>6, TypesFacts DEF EndDoh, call, question, Sound, TypeOK, InTypes, Asking
  <2>2. Types' = Types /\ Quiet(via, Types[1])
    BY <2>1, TypesStay DEF Quiet, Over, Silent, Asks
  <2>3. CASE via = "udp"
    BY <2>1, <2>2, <2>3 DEF SilentIsDead, Rounds, Dead
  <2>4. CASE via = "doh" /\ qi = 1
    <3>1. ~reached
      BY <2>1, <2>2, <2>4 DEF Round, Quiet, Asking
    <3> QED BY <2>1, <2>4, <3>1 DEF Dead
  <2>5. CASE via = "doh" /\ qi # 1
    <3>1. qi > 1
      BY <2>1, <2>5
    <3>2. Dead(via) /\ ~dohDead
      BY <2>1, <2>2, <3>1 DEF SilentIsDead, Rounds, Round, Asking, Dead
    <3> QED BY <2>5, <3>2 DEF Dead
  <2> QED BY <2>3, <2>4, <2>5 DEF Asking
<1>7. ASSUME OsFinds \/ (\E f \in Failures : OsFails(f)) \/ Resolvers
             \/ FreeAddrInfo
             \/ (\E d \in {"getaddrinfo", "gethostbyname"}, n \in Nodes,
                    f \in {"v4", "v6", "any"} : Lookup(d, n, f))
             \/ FindNothing \/ Find
      PROVE  pc' \notin Rounds
  BY <1>7 DEF FreeAddrInfo, OsFinds, OsFails, Lookup, Resolvers, FindNothing,
     Find, Answer, Rounds
<1>8. CASE UNCHANGED vars
  BY <1>1, <1>8 DEF vars, call, question, round
<1> QED BY <1>2, <1>3, <1>4, <1>5, <1>6, <1>7, <1>8 DEF Next, Caller, Step

\* Whom UDP was asked in vain stays true as the history grows.
LEMMA InVainGrows ==
  ASSUME Sound, NEW reply \in Reply, AskUdp(reply) \/ AskDoh(reply),
         NEW m \in BOOLEAN, InVain(m)
  PROVE  InVain(m)'
<1>1. PICK n : n = Len(asked) + 1
  OBVIOUS
<1>2. /\ \A j \in Asks : /\ Silent(j)' <=> Silent(j)
                         /\ Settled(j)' <=> Settled(j)
      /\ Asks' = Asks \cup {n}
  BY <1>1, OverAfter
<1>3. /\ resolvers' = resolvers /\ Types'[qi'] = Types[qi]
      /\ \A j \in Asks : asked'[j] = asked[j]
  BY Exchanged DEF settings
<1> QED BY <1>2, <1>3 DEF InVain

LEMMA VainStep ==
  ASSUME Sound, Progress, Round, Vain, [Next]_vars
  PROVE  Vain'
<1>1. ASSUME UNCHANGED <<pc, family, qi, resolvers, asked, udpDead>>
      PROVE  Vain'
  BY <1>1, TypesStay DEF Vain, InVain, Asks, Silent, Settled
<1>2. CASE Alloc
  BY <1>2 DEF Alloc, Progress, round, Answer, Rounds, Vain
<1>3. CASE StartType
  <2>1. /\ pc = "type" /\ (pc' = "doh" => udpDead)
        /\ UNCHANGED <<asked, resolvers, udpDead>>
    BY <1>3 DEF StartType, NextType, call, question, settings
  <2>2. udpDead => InVain(TRUE)
    BY <1>3 DEF StartType, Vain, Rounds
  <2>3. InVain(TRUE) => InVain(TRUE)' /\ InVain(FALSE)'
    BY <2>1 DEF InVain, Asks, Silent, Settled
  <2>4. /\ pc' = "doh" => InVain(FALSE)'
        /\ udpDead' => InVain(TRUE)'
    BY <2>1, <2>2, <2>3
  <2> QED BY <2>4 DEF Vain
<1>4. ASSUME NEW reply \in Reply, AskUdp(reply) \/ AskDoh(reply)
      PROVE  Vain'
  <2>1. UNCHANGED <<pc, udpDead>>
    BY <1>4, Exchanged
  <2> QED BY <1>4, <2>1, InVainGrows DEF Vain
<1>5. CASE EndUdp
  <2>1. /\ pc = "udp" /\ UNCHANGED <<family, asked, resolvers>>
        /\ udpDead' = ~reached
        /\ pc' = "doh" => ~final /\ qi' = qi
        /\ ~final => si > Len(resolvers)
        /\ si \in Nat /\ DOMAIN resolvers = 1 .. Len(resolvers)
        /\ Len(resolvers) \in Nat
    BY <1>5 DEF EndUdp, NextType, call, question, settings, Sound, TypeOK
  <2>2. ~final => \A r \in DOMAIN resolvers :
                    \E i \in Over("udp", Types[qi]) : asked[i].to = resolvers[r]
    BY <2>1 DEF Round, Asking
  <2>3. ~final => InVain(FALSE)
    <3>1. ~final => \A i \in Over("udp", Types[qi]) : ~Settled(i)
      BY <2>1 DEF Round, Asking, Over
    <3> QED BY <2>2, <3>1 DEF InVain, Over
  <2>4. ~reached => InVain(TRUE)
    <3>1. ~reached => ~final /\ \A i \in Over("udp", Types[qi]) : Silent(i)
      BY <2>1 DEF Round, Asking
    <3>2. \A i \in Asks : Silent(i) => ~Settled(i)
      BY DEF Silent, Settled
    <3> QED BY <2>2, <3>1, <3>2 DEF InVain, Over
  <2>5. InVain(TRUE) => InVain(TRUE)'
    BY <2>1 DEF InVain, Asks, Silent, Settled
  <2>6. pc' = "doh" /\ InVain(FALSE) => InVain(FALSE)'
    BY <2>1, TypesStay DEF InVain, Asks, Silent, Settled
  <2> QED BY <2>1, <2>3, <2>4, <2>5, <2>6 DEF Vain
<1>6. CASE EndDoh
  <2>1. /\ pc = "doh" /\ pc' = "type" /\ UNCHANGED <<asked, udpDead, resolvers>>
    BY <1>6 DEF EndDoh, NextType, settings
  <2>2. InVain(TRUE) => InVain(TRUE)'
    BY <2>1 DEF InVain, Asks, Silent, Settled
  <2> QED BY <2>1, <2>2 DEF Vain, Rounds
<1>7. ASSUME OsFinds \/ (\E f \in Failures : OsFails(f)) \/ Resolvers
             \/ FreeAddrInfo
             \/ (\E d \in {"getaddrinfo", "gethostbyname"}, n \in Nodes,
                    f \in {"v4", "v6", "any"} : Lookup(d, n, f))
             \/ FindNothing \/ Find
      PROVE  pc' \notin Rounds
  BY <1>7 DEF FreeAddrInfo, OsFinds, OsFails, Lookup, Resolvers, FindNothing,
     Find, Answer, Rounds
<1>8. CASE pc' \notin Rounds
  BY <1>8 DEF Vain, Rounds
<1>9. CASE UNCHANGED vars
  BY <1>1, <1>9 DEF vars, call, question, settings, round
<1> QED BY <1>2, <1>3, <1>4, <1>5, <1>6, <1>7, <1>8, <1>9 DEF Next, Caller, Step

-------------------------------------------------------------------------------
(* The properties themselves.                                              *)

LEMMA AnswerRespectedStep ==
  ASSUME Sound, Round, AnswerRespected, [Next]_vars
  PROVE  AnswerRespected'
<1>1. CASE asked' = asked
  BY <1>1 DEF AnswerRespected, Asks, SameType, Settled
<1>2. CASE asked' = <<>>
  BY <1>2 DEF AnswerRespected, Asks
<1>3. ASSUME NEW reply \in Reply, AskUdp(reply) \/ AskDoh(reply)
      PROVE  AnswerRespected'
  <2>1. PICK n : n = Len(asked) + 1
    OBVIOUS
  <2>2. /\ Asks = 1 .. Len(asked) /\ Asks' = 1 .. n /\ Len(asked) \in Nat
        /\ asked'[n].type = Types[qi] /\ pc \in Asking /\ ~final
        /\ \A j \in Asks : asked'[j] = asked[j]
    BY <1>3, <2>1, Exchanged DEF Exchange
  <2>3. \A j \in Asks : Settled(j)' <=> Settled(j)
    BY <1>3, <2>1, OverAfter
  <2> SUFFICES ASSUME NEW i \in Asks', NEW j \in Asks', i < j,
                      asked'[i].type = asked'[j].type
               PROVE  ~Settled(i)'
    BY DEF AnswerRespected, SameType
  <2>4. i \in Asks
    BY <2>1, <2>2
  <2>5. CASE j \in Asks
    BY <2>2, <2>3, <2>4, <2>5 DEF AnswerRespected, SameType
  <2>6. CASE j = n
    BY <2>2, <2>3, <2>4, <2>6 DEF Round
  <2> QED BY <2>1, <2>2, <2>5, <2>6
<1> QED BY <1>1, <1>2, <1>3, HistoryKept

LEMMA DohIsSecondStep ==
  ASSUME Sound, Progress, Consented, Vain, DohIsSecond, [Next]_vars
  PROVE  DohIsSecond'
<1>1. CASE asked' = <<>>
  BY <1>1 DEF DohIsSecond, Asks
<1>2. ASSUME NEW reply \in Reply, AskUdp(reply) \/ AskDoh(reply)
      PROVE  DohIsSecond'
  <2>1. PICK n : n = Len(asked) + 1
    OBVIOUS
  <2>2. /\ Asks = 1 .. Len(asked) /\ Asks' = 1 .. n /\ Len(asked) \in Nat
        /\ asked'[n].type = Types[qi] /\ asked'[n].via = pc
        /\ \A j \in Asks : asked'[j] = asked[j]
        /\ resolvers' = resolvers
    BY <1>2, <2>1, Exchanged DEF settings
  <2>3. \A j \in Asks : (Settled(j)' <=> Settled(j)) /\ (Silent(j)' <=> Silent(j))
    BY <1>2, <2>1, OverAfter
  <2> SUFFICES ASSUME NEW i \in Asks', asked'[i].via = "doh",
                      NEW r \in DOMAIN resolvers
               PROVE  \E j \in Asks' : /\ j < i /\ asked'[j].via = "udp"
                                       /\ asked'[j].to = resolvers[r]
                                       /\ ~Settled(j)'
                                       /\ \/ asked'[i].type = asked'[j].type
                                          \/ Silent(j)'
    BY <2>2 DEF DohIsSecond, SameType
  <2>4. CASE i \in Asks
    <3>1. PICK j \in Asks : /\ j < i /\ asked[j].via = "udp"
                            /\ asked[j].to = resolvers[r] /\ ~Settled(j)
                            /\ SameType(i, j) \/ Silent(j)
      BY <2>2, <2>4 DEF DohIsSecond
    <3> QED BY <2>1, <2>2, <2>3, <2>4, <3>1 DEF SameType
  <2>5. CASE i = n
    <3>1. InVain(FALSE)
      BY <2>2, <2>5 DEF Vain
    <3>2. PICK j \in Asks : /\ asked[j].via = "udp" /\ asked[j].to = resolvers[r]
                            /\ ~Settled(j)
                            /\ asked[j].type = Types[qi] \/ Silent(j)
      BY <3>1 DEF InVain
    <3> QED BY <2>1, <2>2, <2>3, <2>5, <3>2
  <2> QED BY <2>1, <2>2, <2>4, <2>5
<1>3. CASE asked' = asked /\ resolvers' = resolvers
  BY <1>3 DEF DohIsSecond, Asks, SameType, Settled, Silent
<1>4. CASE Resolvers
  <2>1. asked' = <<>>
    BY <1>4 DEF Resolvers, Progress, round
  <2> QED BY <1>1, <2>1
<1>5. ASSUME [Next]_vars, ~Resolvers, asked' # <<>>
      PROVE  \/ asked' = asked /\ resolvers' = resolvers
             \/ \E reply \in Reply : AskUdp(reply) \/ AskDoh(reply)
  BY <1>5 DEF Next, Caller, Step, vars, settings, round,
     FreeAddrInfo, OsFinds, OsFails, Lookup, Alloc, StartType,
     EndUdp, EndDoh, FindNothing, Find
<1> QED BY <1>1, <1>2, <1>3, <1>4, <1>5

LEMMA AnswerFaithfulStep ==
  ASSUME Sound, Sound', Progress, KeepsAll, AnswerFaithful, [Next]_vars
  PROVE  AnswerFaithful'
<1>1. (Len(addrs) <= MaxAddr)'
  BY DEF Sound, TypeOK
<1> DEFINE Told == pc = "idle" /\ answer # "none" =>
                     answer = IF os = "ok" \/ Arrived THEN "ok" ELSE os
<1> SUFFICES Told'
  BY <1>1 DEF AnswerFaithful
<1>2. ASSUME UNCHANGED <<pc, answer, os, asked>> PROVE Told'
  BY <1>2 DEF AnswerFaithful, Arrived, Asks
<1>3. CASE OsFinds
  BY <1>3 DEF OsFinds, Answer
<1>4. ASSUME NEW f \in Failures, OsFails(f) PROVE Told'
  BY <1>4 DEF OsFails, Answer, Failures, Progress, round, Arrived, Asks
<1>5. CASE Resolvers \/ Alloc
  BY <1>5 DEF Resolvers, Alloc, Answer, Progress, round, Arrived, Asks
<1>6. CASE FindNothing
  BY <1>6 DEF FindNothing, AllAsked, Answer, Progress, KeepsAll, round, Arrived,
     Asks
<1>7. CASE Find
  BY <1>7 DEF Find, AllAsked, Answer, KeepsAll, round, Arrived, Asks
<1>8. CASE FreeAddrInfo
  BY <1>2, <1>8 DEF FreeAddrInfo, call, round
<1>9. CASE UNCHANGED vars
  BY <1>2, <1>9 DEF vars, call, round
<1>10. ASSUME (\E d \in {"getaddrinfo", "gethostbyname"}, n \in Nodes,
                  f \in {"v4", "v6", "any"} : Lookup(d, n, f))
              \/ StartType \/ EndUdp \/ EndDoh
              \/ (\E reply \in Reply : AskUdp(reply) \/ AskDoh(reply))
       PROVE  pc' # "idle"
  BY <1>10, Exchanged DEF Lookup, StartType, EndUdp, EndDoh, NextType, Asking
<1>11. ASSUME pc' # "idle" PROVE Told'
  BY <1>11
<1> HIDE DEF Told
<1> QED BY <1>3, <1>4, <1>5, <1>6, <1>7, <1>8, <1>9, <1>10, <1>11
           DEF Next, Caller, Step

IInv ==
  /\ Sound /\ Progress /\ Consented /\ TypesAsked /\ Round /\ Vain
  /\ SilentIsDead /\ SilentIsLast /\ KeepsAll
  /\ AnswerRespected /\ DohIsSecond /\ AnswerFaithful

LEMMA IInvInit == Init => IInv
<1> SUFFICES ASSUME Init PROVE IInv
  OBVIOUS
<1>1. Sound
  BY SoundInit
<1>2. /\ pc = "idle" /\ asked = <<>> /\ addrs = <<>> /\ answer = "none"
      /\ Asks = {} /\ Len(addrs) <= MaxAddr
  BY DnsAssumption, NothingYet DEF Init, Asks
<1>3. Progress /\ Consented /\ TypesAsked /\ Round /\ Vain
  BY <1>2 DEF Progress, Consented, TypesAsked, Round, Vain, Rounds, Asking
<1>4. SilentIsDead /\ SilentIsLast /\ KeepsAll
  BY <1>2 DEF SilentIsDead, SilentIsLast, KeepsAll, Rounds, Over, Arrived
<1>5. AnswerRespected /\ DohIsSecond /\ AnswerFaithful
  BY <1>2 DEF AnswerRespected, DohIsSecond, AnswerFaithful
<1> QED BY <1>1, <1>3, <1>4, <1>5 DEF IInv

LEMMA IInvStep == IInv /\ [Next]_vars => IInv'
<1> SUFFICES ASSUME IInv, [Next]_vars PROVE IInv'
  OBVIOUS
<1> USE DEF IInv
<1>1. Sound' BY SoundStep
<1>2. Progress' BY ProgressStep
<1>3. Consented' BY ConsentedStep
<1>4. TypesAsked' BY TypesAskedStep
<1>5. Round' BY RoundStep
<1>6. Vain' BY VainStep
<1>7. SilentIsDead' BY SilentIsDeadStep
<1>8. SilentIsLast' BY SilentIsLastStep
<1>9. KeepsAll' BY KeepsAllStep
<1>10. AnswerRespected' BY AnswerRespectedStep
<1>11. DohIsSecond' BY DohIsSecondStep
<1>12. AnswerFaithful' BY <1>1, AnswerFaithfulStep
<1> QED BY <1>1, <1>2, <1>3, <1>4, <1>5, <1>6, <1>7, <1>8, <1>9, <1>10, <1>11,
           <1>12

\* Every reachable state satisfies the invariant.
THEOREM Inductive == Spec => []IInv
<1> QED BY IInvInit, IInvStep, PTL DEF Spec

\* The variables keep their types: the block of addresses and the list of
\* resolvers never outgrow their arrays, and the loops their bounds.
THEOREM TypeCorrect == Spec => []TypeOK
<1>1. IInv => TypeOK
  BY DEF IInv, Sound
<1> QED BY <1>1, Inductive, PTL

\* Nobody is asked but resolvers that the user named by address, and only once
\* the system resolver said that it could reach nobody.
THEOREM AskedByConsent == Spec => []OptIn
<1>1. ASSUME IInv, asked # <<>> PROVE OptIn
  <2>1. /\ os = "unreachable" /\ node = "name"
        /\ resolvers = IF Tokenize(env) # <<>> THEN Tokenize(env)
                       ELSE Tokenize(config)
        /\ \A i \in Asks : \E r \in DOMAIN resolvers : asked[i].to = resolvers[r]
    BY <1>1 DEF IInv, Progress, Consented
  <2>2. env \in Seq(Word) /\ config \in Seq(Word)
    BY <1>1, DnsAssumption, NothingYet DEF IInv, Sound, TypeOK
  <2>3. CASE Tokenize(env) # <<>>
    <3>1. \A i \in Asks : asked[i].to \in Named(env)
      BY <2>1, <2>2, <2>3, TokenizeFacts
    <3> QED BY <2>1, <3>1 DEF OptIn
  <2>4. CASE Tokenize(env) = <<>>
    <3>1. ~(Len(env) <= ListCap /\ Named(env) # {})
      BY <2>2, <2>4, TokenizeFacts
    <3>2. \A i \in Asks : asked[i].to \in Named(config)
      BY <2>1, <2>2, <2>4, TokenizeFacts
    <3> QED BY <2>1, <3>1, <3>2 DEF OptIn
  <2> QED BY <2>3, <2>4
<1>2. IInv => OptIn
  BY <1>1 DEF OptIn
<1> QED BY <1>2, Inductive, PTL

\* A resolver that answered, if only that there is no such name, is the last
\* to be asked that question.
THEOREM Respected == Spec => []AnswerRespected
<1>1. IInv => AnswerRespected
  BY DEF IInv
<1> QED BY <1>1, Inductive, PTL

\* UDP comes first, and a transport on which all were silent is waited for
\* once, in whatever order silence and failures come.
THEOREM InTurn == Spec => []AskedInTurn
<1>1. ASSUME IInv, NEW via \in {"udp", "doh"}, resolvers # <<>>,
             AllSilent(via, "A"), AllSilent(via, "AAAA")
      PROVE  FALSE
  <2>1. PICK r : r \in DOMAIN resolvers
    <3>1. resolvers \in Seq(Word)
      BY <1>1 DEF IInv, Sound, TypeOK
    <3>2. Len(resolvers) \in Nat \ {0} /\ DOMAIN resolvers = 1 .. Len(resolvers)
      BY <1>1, <3>1, EmptySeq, LenProperties
    <3> QED BY <3>2
  <2>2. Quiet(via, "A")
    BY <1>1, <2>1 DEF AllSilent, Quiet, Over
  <2>3. Over(via, "AAAA") # {}
    BY <1>1, <2>1 DEF AllSilent, Over
  <2> QED BY <1>1, <2>2, <2>3 DEF IInv, SilentIsLast, Asking
<1>2. IInv => AskedInTurn
  BY <1>1 DEF AskedInTurn, SilencePaidOnce, IInv
<1> QED BY <1>2, Inductive, PTL

\* A lookup that was taken over succeeds exactly if an address arrived, and
\* the system's own verdict is what the caller gets otherwise.
THEOREM Faithful == Spec => []AnswerFaithful
<1>1. IInv => AnswerFaithful
  BY DEF IInv
<1> QED BY <1>1, Inductive, PTL

\* Chains are freed once, by the allocator they came from, and none is lost.
THEOREM Accounted == Spec => []ChainsAccounted
<1>1. IInv => ChainsAccounted
  BY DEF IInv, Sound
<1> QED BY <1>1, Inductive, PTL

-------------------------------------------------------------------------------
(* The configuration file (DnsConfig): the parts of a line.                *)

\* The part of s from i to j.
Part(s, i, j) ==
  /\ i \in Nat \ {0} /\ j \in Nat /\ i <= j + 1 /\ j <= Len(s)

\* r is the part of s from i to j.
Copies(r, s, i, j) ==
  /\ s \in Seq(STRING) /\ Part(s, i, j)
  /\ r = SubSeq(s, i, j) /\ r \in Seq(STRING) /\ Len(r) = (j - i) + 1
  /\ \A k \in 1 .. (j - i) + 1 : r[k] = s[(i + k) - 1]

LEMMA SubAt ==
  ASSUME NEW s \in Seq(STRING), NEW i, NEW j, Part(s, i, j)
  PROVE  Copies(SubSeq(s, i, j), s, i, j)
<1>1. i \in Int /\ j \in Int /\ i <= j + 1
  BY DEF Part
<1>2. \A k \in i .. j : s[k] \in STRING
  <2> TAKE k \in i .. j
  <2>1. k \in 1 .. Len(s)
    BY DEF Part
  <2> QED BY <2>1
<1>3. /\ SubSeq(s, i, j) \in Seq(STRING)
      /\ Len(SubSeq(s, i, j)) = IF i <= j THEN (j - i) + 1 ELSE 0
      /\ \A k \in 1 .. (j - i) + 1 : SubSeq(s, i, j)[k] = s[(i + k) - 1]
  BY <1>1, <1>2, SubSeqProperties
<1> QED BY <1>1, <1>3 DEF Copies

\* A part of a part, from a to b of the whole.
LEMMA SubSub ==
  ASSUME NEW t, NEW s, NEW i, NEW j, Copies(t, s, i, j),
         NEW k \in Nat \ {0}, NEW m \in Nat, k <= m + 1, m <= (j - i) + 1,
         NEW a, NEW b, a = (i + k) - 1, b = (i + m) - 1
  PROVE  Copies(SubSeq(t, k, m), s, a, b)
<1>1. i \in Nat \ {0} /\ j \in Nat /\ i <= j + 1 /\ j <= Len(s)
      /\ t \in Seq(STRING) /\ s \in Seq(STRING) /\ Len(t) = (j - i) + 1
      /\ \A l \in 1 .. (j - i) + 1 : t[l] = s[(i + l) - 1]
  BY DEF Copies, Part
<1>2. Part(t, k, m) /\ Part(s, a, b)
  <2>1. Part(t, k, m)
    BY <1>1 DEF Part
  <2>2. a \in Nat \ {0} /\ b \in Nat /\ a <= b + 1 /\ b <= Len(s)
    <3> DEFINE n == Len(s)
    <3>1. i \in Nat \ {0} /\ j \in Nat /\ n \in Nat /\ j <= n
      BY <1>1
    <3> HIDE DEF n
    <3>2. a \in Nat \ {0} /\ b \in Nat /\ a <= b + 1 /\ b <= n
      BY <3>1
    <3> QED BY <3>2 DEF n
  <2> QED BY <2>1, <2>2 DEF Part
<1>3. Copies(SubSeq(t, k, m), t, k, m) /\ Copies(SubSeq(s, a, b), s, a, b)
  <2>1. Copies(SubSeq(t, k, m), t, k, m)
    BY <1>1, <1>2, SubAt, Zenon
  <2>2. Copies(SubSeq(s, a, b), s, a, b)
    BY <1>1, <1>2, SubAt, Zenon
  <2> QED BY <2>1, <2>2
<1> DEFINE u == SubSeq(t, k, m)
           v == SubSeq(s, a, b)
<1>4. /\ u \in Seq(STRING) /\ Len(u) = (m - k) + 1
      /\ \A l \in 1 .. (m - k) + 1 : u[l] = t[(k + l) - 1]
      /\ v \in Seq(STRING) /\ Len(v) = (b - a) + 1
      /\ \A l \in 1 .. (b - a) + 1 : v[l] = s[(a + l) - 1]
  BY <1>3 DEF Copies
<1> HIDE DEF u, v
<1>5. (b - a) + 1 = (m - k) + 1
  <2>1. i \in Nat
    BY <1>1
  <2> QED BY <2>1
<1>6. ASSUME NEW l \in 1 .. (m - k) + 1 PROVE u[l] = v[l]
  <2>1. /\ (k + l) - 1 \in 1 .. (j - i) + 1
        /\ (i + ((k + l) - 1)) - 1 = (a + l) - 1
    <3>1. i \in Nat /\ j \in Nat
      BY <1>1
    <3> QED BY <3>1
  <2> QED BY <1>1, <1>4, <1>5, <2>1
<1>7. u = v
  BY <1>4, <1>5, <1>6, SeqEqual
<1> QED BY <1>3, <1>7 DEF u, v

\* The first c from i to j is at n; behind j, if there is none.
FirstAt(s, i, j, c, n) ==
  /\ n \in i .. j + 1 /\ \A k \in i .. n - 1 : s[k] # c
  /\ n <= j => s[n] = c

LEMMA BeforeAt ==
  ASSUME NEW t, NEW s, NEW i, NEW j, Copies(t, s, i, j), NEW c
  PROVE  \E n \in Nat :
           /\ FirstAt(s, i, j, c, n)
           /\ Copies(Before(t, c), s, i, n - 1)
           /\ Has(t, c) <=> n <= j
           /\ n <= j => Copies(After(t, c), s, n + 1, j)
<1> DEFINE N == (j - i) + 1
           I == {k \in 1 .. Len(t) : t[k] = c}
<1>1. /\ t \in Seq(STRING) /\ Len(t) = N
      /\ \A l \in 1 .. N : t[l] = s[(i + l) - 1]
      /\ t = SubSeq(s, i, j) /\ s \in Seq(STRING)
  BY DEF Copies
<1>2. i \in Nat \ {0} /\ j \in Nat /\ N \in Nat /\ i <= j + 1 /\ j <= Len(s)
  BY DEF Part, Copies
<1>3. \A k \in I : k \in Nat /\ 1 <= k /\ k <= N
  BY <1>1, <1>2
<1> DEFINE m == CHOOSE k \in I : \A l \in I : k <= l
<1>4. I # {} => /\ m \in I /\ \A l \in I : m <= l
                /\ m \in Nat /\ 1 <= m /\ m <= N
  <2> SUFFICES ASSUME I # {} PROVE m \in I /\ \A l \in I : m <= l
    BY <1>3
  <2>1. I \in SUBSET Nat
    BY <1>3
  <2> HIDE DEF I
  <2>2. PICK k \in I : \A l \in I : k <= l
    BY <2>1, Least
  <2> QED BY <2>2
<1>5. Before(t, c) = IF I # {} THEN SubSeq(t, 1, m - 1) ELSE t
  <2>1. SelectInSeq(t, LAMBDA x : x = c) = IF I # {} THEN m ELSE 0
    BY DEF SelectInSeq, Min
  <2> HIDE DEF I, m
  <2> QED BY <1>4, <2>1 DEF Before
<1>6. Has(t, c) <=> I # {}
  <2>1. DOMAIN t = 1 .. Len(t)
    BY <1>1
  <2> QED BY <2>1 DEF Has
<1>7. CASE I = {}
  <2>1. \A k \in i .. j : s[k] # c
    <3> SUFFICES ASSUME NEW k \in i .. j PROVE s[k] # c
      OBVIOUS
    <3>1. (k - i) + 1 \in 1 .. N /\ (i + ((k - i) + 1)) - 1 = k
      BY <1>2
    <3> QED BY <1>1, <1>7, <3>1
  <2> DEFINE n == j + 1
  <2>2. n \in Nat /\ n - 1 = j /\ ~(n <= j) /\ FirstAt(s, i, j, c, n)
    BY <1>2, <2>1 DEF FirstAt
  <2> HIDE DEF I, n
  <2>3. Copies(Before(t, c), s, i, n - 1)
    BY <1>5, <1>7, <2>2
  <2> QED BY <1>6, <1>7, <2>2, <2>3
<1>8. CASE I # {}
  <2>1. /\ m \in I /\ m \in Nat /\ 1 <= m /\ m <= N
        /\ \A l \in I : m <= l
    BY <1>4, <1>8
  <2> HIDE DEF m
  <2>2. t[m] = c /\ \A k \in 1 .. m - 1 : t[k] # c
    <3>1. t[m] = c
      BY <2>1
    <3>2. ASSUME NEW k \in 1 .. m - 1, t[k] = c PROVE FALSE
      <4>1. k \in 1 .. Len(t) /\ ~(m <= k)
        BY <1>1, <1>2, <2>1
      <4>2. k \in I
        BY <3>2, <4>1
      <4> HIDE DEF I
      <4> QED BY <2>1, <4>1, <4>2
    <3> QED BY <3>1, <3>2
  <2> DEFINE n == (i + m) - 1
  <2>3. n \in i .. j /\ n \in Nat
    BY <1>2, <2>1
  <2>4. s[n] = c
    <3>1. m \in 1 .. N
      BY <1>2, <2>1
    <3> QED BY <1>1, <2>2, <3>1
  <2>5. \A k \in i .. n - 1 : s[k] # c
    <3> SUFFICES ASSUME NEW k \in i .. n - 1 PROVE s[k] # c
      OBVIOUS
    <3>1. /\ (k - i) + 1 \in 1 .. m - 1 /\ (k - i) + 1 \in 1 .. N
          /\ (i + ((k - i) + 1)) - 1 = k
      BY <1>2, <2>1
    <3> QED BY <1>1, <2>2, <3>1
  <2>6. FirstAt(s, i, j, c, n)
    <3>1. n \in i .. j + 1
      BY <1>2, <2>3
    <3> HIDE DEF n
    <3> QED BY <2>4, <2>5, <3>1 DEF FirstAt
  <2>7. Copies(Before(t, c), s, i, n - 1)
    <3>1. Before(t, c) = SubSeq(t, 1, m - 1)
      <4> HIDE DEF I
      <4> QED BY <1>5, <1>8
    <3>2. /\ 1 \in Nat \ {0} /\ m - 1 \in Nat /\ 1 <= (m - 1) + 1
          /\ m - 1 <= (j - i) + 1
          /\ i = (i + 1) - 1 /\ n - 1 = (i + (m - 1)) - 1
      BY <1>2, <2>1
    <3> HIDE DEF I, n
    <3> QED BY <3>1, <3>2, SubSub
  <2>8. Copies(After(t, c), s, n + 1, j)
    <3>1. Len(Before(t, c)) = m - 1
      <4>1. Len(Before(t, c)) = ((n - 1) - i) + 1
        BY <2>7 DEF Copies
      <4>2. ((n - 1) - i) + 1 = m - 1
        BY <1>2, <2>1
      <4> QED BY <4>1, <4>2
    <3>2. After(t, c) = SubSeq(t, m + 1, N)
      <4>1. (m - 1) + 2 = m + 1
        BY <2>1
      <4> HIDE DEF I, n
      <4> QED BY <1>1, <3>1, <4>1 DEF After
    <3>3. /\ m + 1 \in Nat \ {0} /\ N \in Nat /\ m + 1 <= N + 1
          /\ N <= (j - i) + 1
          /\ n + 1 = (i + (m + 1)) - 1 /\ j = (i + N) - 1
      BY <1>2, <2>1
    <3> HIDE DEF I, n, N
    <3> QED BY <3>2, <3>3, SubSub
  <2>9. Has(t, c) <=> n <= j
    BY <1>6, <1>8, <2>3, <1>2
  <2> HIDE DEF n
  <2> QED BY <2>3, <2>6, <2>7, <2>8, <2>9
<1> QED BY <1>7, <1>8

\* All that is written from i to j is from a to b.
Inked(s, i, j, a, b) ==
  /\ a \in i .. j /\ b \in a .. j
  /\ s[a] \notin Blanks /\ s[b] \notin Blanks
  /\ \A k \in i .. j : s[k] \notin Blanks => a <= k /\ k <= b

\* Nothing is written from i to j.
Blank(s, i, j) == \A k \in i .. j : s[k] \in Blanks

\* A set of numbers with a bound has a greatest one.
LEMMA Greatest ==
  ASSUME NEW n \in Nat, NEW T \in SUBSET (0 .. n), T # {}
  PROVE  \E m \in T : \A k \in T : k <= m
<1> DEFINE U == {n - k : k \in T}
<1>1. U \in SUBSET Nat /\ U # {}
  <2>1. \A k \in T : n - k \in Nat
    OBVIOUS
  <2>2. PICK k \in T : TRUE
    OBVIOUS
  <2>3. n - k \in U
    OBVIOUS
  <2> QED BY <2>1, <2>3
<1> HIDE DEF U
<1>2. PICK u \in U : \A k \in U : u <= k
  BY <1>1, Least
<1>3. PICK m \in T : u = n - m
  BY <1>2 DEF U
<1>4. ASSUME NEW k \in T PROVE k <= m
  <2>1. n - k \in U
    BY DEF U
  <2>2. n - m <= n - k
    BY <1>2, <1>3, <2>1
  <2> QED BY <2>2
<1> QED BY <1>4

LEMMA TrimAt ==
  ASSUME NEW t, NEW s, NEW i, NEW j, Copies(t, s, i, j)
  PROVE  \/ Blank(s, i, j) /\ Trim(t) = <<>>
         \/ \E a \in Nat, b \in Nat :
              Inked(s, i, j, a, b) /\ Copies(Trim(t), s, a, b)
<1> DEFINE N == (j - i) + 1
           Ink == {k \in DOMAIN t : t[k] \notin Blanks}
           first == CHOOSE k \in Ink : \A l \in Ink : k <= l
           last == CHOOSE k \in Ink : \A l \in Ink : l <= k
<1>1. /\ t \in Seq(STRING) /\ Len(t) = N
      /\ \A l \in 1 .. N : t[l] = s[(i + l) - 1]
  BY DEF Copies
<1>2. i \in Nat \ {0} /\ j \in Nat /\ N \in Nat /\ i <= j + 1
  BY DEF Part, Copies
<1>3. DOMAIN t = 1 .. N
  BY <1>1
<1>4. Trim(t) = IF Ink = {} THEN <<>> ELSE SubSeq(t, first, last)
  BY DEF Trim
<1>5. ASSUME NEW k \in i .. j
      PROVE  /\ (k - i) + 1 \in 1 .. N /\ s[k] = t[(k - i) + 1]
             /\ s[k] \notin Blanks => (k - i) + 1 \in Ink
  <2>1. (k - i) + 1 \in 1 .. N /\ (i + ((k - i) + 1)) - 1 = k
    BY <1>2
  <2> QED BY <1>1, <1>3, <2>1
<1>6. CASE Ink = {}
  <2>1. Trim(t) = <<>>
    BY <1>4, <1>6
  <2>2. \A k \in i .. j : (k - i) + 1 \notin Ink
    BY <1>6
  <2> HIDE DEF Ink
  <2> QED BY <1>5, <2>1, <2>2 DEF Blank
<1>7. CASE Ink # {}
  <2>1. \A k \in Ink : k \in 1 .. N /\ t[k] \notin Blanks
    BY <1>3
  <2>2. /\ first \in Ink /\ \A l \in Ink : first <= l
    <3>1. Ink \in SUBSET Nat
      BY <2>1
    <3> HIDE DEF Ink
    <3>2. PICK k \in Ink : \A l \in Ink : k <= l
      BY <1>7, <3>1, Least
    <3> QED BY <3>2
  <2>3. /\ last \in Ink /\ \A l \in Ink : l <= last
    <3>1. Ink \in SUBSET (0 .. N)
      BY <1>2, <2>1
    <3> HIDE DEF Ink, N
    <3>2. PICK k \in Ink : \A l \in Ink : l <= k
      BY <1>2, <1>7, <3>1, Greatest
    <3> QED BY <3>2
  <2>4. Trim(t) = SubSeq(t, first, last)
    BY <1>4, <1>7
  <2> HIDE DEF first, last, Ink
  <2> DEFINE a == (i + first) - 1
             b == (i + last) - 1
  <2>5. first \in 1 .. N /\ last \in 1 .. N /\ first <= last
    BY <2>1, <2>2, <2>3
  <2>6. a \in i .. j /\ b \in a .. j /\ a \in Nat /\ b \in Nat
    BY <1>2, <2>5
  <2>7. s[a] \notin Blanks /\ s[b] \notin Blanks
    BY <1>1, <2>1, <2>2, <2>3, <2>5
  <2>8. ASSUME NEW k \in i .. j, s[k] \notin Blanks PROVE a <= k /\ k <= b
    <3>1. (k - i) + 1 \in Ink
      BY <1>5, <2>8
    <3>2. first <= (k - i) + 1 /\ (k - i) + 1 <= last
      BY <2>2, <2>3, <3>1
    <3> QED BY <1>2, <2>5, <3>2
  <2>9. Copies(Trim(t), s, a, b)
    <3>1. /\ first \in Nat \ {0} /\ last \in Nat /\ first <= last + 1
          /\ last <= (j - i) + 1
      BY <1>2, <2>5
    <3> QED BY <2>4, <3>1, SubSub
  <2> HIDE DEF a, b
  <2>10. Inked(s, i, j, a, b)
    BY <2>6, <2>7, <2>8 DEF Inked
  <2> QED BY <2>6, <2>9, <2>10
<1> QED BY <1>6, <1>7

\* A part with something written in it begins and ends with that in one way.
LEMMA InkedOnce ==
  ASSUME NEW s, NEW i \in Nat, NEW j \in Nat,
         NEW a \in Nat, NEW b \in Nat, Inked(s, i, j, a, b),
         NEW c \in Nat, NEW d \in Nat, Inked(s, i, j, c, d)
  PROVE  a = c /\ b = d
<1>1. /\ a \in i .. j /\ b \in i .. j /\ c \in i .. j /\ d \in i .. j
  BY DEF Inked
<1> QED BY <1>1 DEF Inked

\* A blank at the end changes nothing.
LEMMA TrimBlankEnd ==
  ASSUME NEW t, NEW u, NEW s, NEW i, NEW j, Copies(t, s, i, j),
         i <= j, s[j] \in Blanks, Copies(u, s, i, j - 1)
  PROVE  Trim(t) = Trim(u)
<1>1. i \in Nat \ {0} /\ j \in Nat /\ j - 1 \in Nat
  BY DEF Copies, Part
<1>2. CASE Blank(s, i, j)
  <2>1. Blank(s, i, j - 1)
    BY <1>1, <1>2 DEF Blank
  <2>2. Trim(t) = <<>>
    <3>1. \A a, b : ~Inked(s, i, j, a, b)
      BY <1>1, <1>2 DEF Blank, Inked
    <3> QED BY <3>1, TrimAt
  <2>3. Trim(u) = <<>>
    <3>1. \A a, b : ~Inked(s, i, j - 1, a, b)
      BY <1>1, <2>1 DEF Blank, Inked
    <3> QED BY <3>1, TrimAt
  <2> QED BY <2>2, <2>3
<1>3. CASE ~Blank(s, i, j)
  <2>1. PICK a \in Nat, b \in Nat :
          Inked(s, i, j, a, b) /\ Copies(Trim(t), s, a, b)
    BY <1>3, TrimAt
  <2>2. Inked(s, i, j - 1, a, b)
    BY <1>1, <2>1 DEF Inked
  <2>3. ~Blank(s, i, j - 1)
    BY <1>1, <2>2 DEF Inked, Blank
  <2>4. PICK c \in Nat, d \in Nat :
          Inked(s, i, j - 1, c, d) /\ Copies(Trim(u), s, c, d)
    <3> DEFINE J == j - 1
    <3>1. Copies(u, s, i, J) /\ ~Blank(s, i, J)
      BY <2>3
    <3> HIDE DEF J
    <3>2. \E c \in Nat, d \in Nat :
            Inked(s, i, J, c, d) /\ Copies(Trim(u), s, c, d)
      BY <3>1, TrimAt
    <3> QED BY <3>2 DEF J
  <2>5. a = c /\ b = d
    BY <1>1, <2>2, <2>4, InkedOnce
  <2> QED BY <2>1, <2>4, <2>5 DEF Copies
<1> QED BY <1>2, <1>3

\* What is written is one word w.
LEMMA TrimWord ==
  ASSUME NEW t, NEW s, NEW i, NEW j, Copies(t, s, i, j),
         NEW w, w \notin Blanks
  PROVE  Trim(t) = <<w>> <=>
           \E k \in i .. j : /\ s[k] = w
                             /\ \A l \in (i .. j) \ {k} : s[l] \in Blanks
<1>1. i \in Nat \ {0} /\ j \in Nat
  BY DEF Copies, Part
<1>2. ASSUME Trim(t) = <<w>>
      PROVE  \E k \in i .. j : /\ s[k] = w
                               /\ \A l \in (i .. j) \ {k} : s[l] \in Blanks
  <2>1. PICK a \in Nat, b \in Nat :
          Inked(s, i, j, a, b) /\ Copies(Trim(t), s, a, b)
    BY <1>2, TrimAt
  <2>2. (b - a) + 1 = 1 /\ s[a] = w
    <3>1. Len(<<w>>) = 1 /\ <<w>>[1] = w
      OBVIOUS
    <3>2. /\ Len(Trim(t)) = (b - a) + 1
          /\ \A l \in 1 .. (b - a) + 1 : Trim(t)[l] = s[(a + l) - 1]
      BY <2>1 DEF Copies
    <3>3. (b - a) + 1 = 1
      BY <1>2, <3>1, <3>2
    <3>4. 1 \in 1 .. (b - a) + 1 /\ (a + 1) - 1 = a
      BY <3>3
    <3> QED BY <1>2, <3>1, <3>2, <3>3, <3>4
  <2>3. a = b
    BY <2>2
  <2>4. a \in i .. j /\ \A l \in (i .. j) \ {a} : s[l] \in Blanks
    BY <1>1, <2>1, <2>3 DEF Inked
  <2> QED BY <2>2, <2>4
<1>3. ASSUME NEW k \in i .. j, s[k] = w,
             \A l \in (i .. j) \ {k} : s[l] \in Blanks
      PROVE  Trim(t) = <<w>>
  <2>1. Inked(s, i, j, k, k) /\ k \in Nat /\ ~Blank(s, i, j)
    BY <1>1, <1>3 DEF Inked, Blank
  <2>2. PICK a \in Nat, b \in Nat :
          Inked(s, i, j, a, b) /\ Copies(Trim(t), s, a, b)
    BY <2>1, TrimAt
  <2>3. a = k /\ b = k
    BY <1>1, <2>1, <2>2, InkedOnce
  <2>4. Copies(Trim(t), s, k, k)
    BY <2>2, <2>3
  <2>5. /\ Trim(t) \in Seq(STRING) /\ Len(Trim(t)) = (k - k) + 1
        /\ \A l \in 1 .. (k - k) + 1 : Trim(t)[l] = s[(k + l) - 1]
    BY <2>4 DEF Copies
  <2>6. (k - k) + 1 = 1 /\ (k + 1) - 1 = k
    BY <2>1
  <2> DEFINE r == Trim(t)
             n == (k - k) + 1
  <2>7. /\ r \in Seq(STRING) /\ Len(r) = n
        /\ \A l \in 1 .. n : r[l] = s[(k + l) - 1]
    BY <2>5
  <2> HIDE DEF r, n
  <2>8. n = 1
    BY <2>6 DEF n
  <2>9. r[1] = s[k]
    BY <2>6, <2>7, <2>8
  <2>10. r = <<w>>
    BY <1>3, <2>7, <2>8, <2>9
  <2> QED BY <2>10 DEF r
<1> QED BY <1>2, <1>3

\* A line with what ends it is read from p to m.
EndsAt(p, m) ==
  /\ p \in Nat \ {0} /\ m \in p .. Len(file)
  /\ \A k \in p .. m - 1 : file[k] # Eol
  /\ m = Len(file) \/ file[m] = Eol

\* The last character of that line.
LastOf(m) == IF file[m] = Eol THEN m - 1 ELSE m

\* The parts of Sets.
Splits(p, q, e, b) ==
  /\ file[e] = "=" /\ e < b /\ (b > q \/ file[b] = "#")
  /\ \A i \in p .. b - 1 : file[i] # "#" /\ (i < e => file[i] # "=")
Keyed(p, e) ==
  \E k \in p .. e - 1 : /\ file[k] = "dns"
                        /\ \A i \in (p .. e - 1) \ {k} : file[i] \in Blanks

LEMMA SetsIs ==
  ASSUME NEW p, NEW q, NEW v
  PROVE  Sets(<<p, q>>, v) <=>
           \E e \in p .. q, b \in p .. q + 1 :
             /\ Splits(p, q, e, b) /\ Keyed(p, e)
             /\ v = Trim(SubSeq(file, e + 1, b - 1))
             /\ v # <<>> /\ Len(v) < ValueCap
<1>1. <<p, q>>[1] = p /\ <<p, q>>[2] = q
  OBVIOUS
<1> QED BY <1>1, Zenon DEF Sets, Splits, Keyed

\* What config_dns takes from a line is what the line sets.
LEMMA SettingMeans ==
  ASSUME file \in Seq(STRING), NEW p, NEW m, EndsAt(p, m),
         NEW line, Copies(line, file, p, m), NEW w
  PROVE  Setting(line) = w /\ w # <<>> <=> Sets(<<p, LastOf(m)>>, w)
<1> DEFINE q == LastOf(m)
           code == Before(line, "#")
           key == Before(code, "=")
           val == After(code, "=")
<1>1. p \in Nat \ {0} /\ m \in Nat /\ p <= m /\ m <= Len(file)
  BY DEF EndsAt
<1>2. /\ q \in Nat /\ p <= q + 1 /\ (q = m \/ (q = m - 1 /\ file[m] = Eol))
      /\ file[m] # Eol => q = m
  BY <1>1 DEF LastOf
<1> HIDE DEF q
<1>3. PICK h \in Nat : /\ FirstAt(file, p, m, "#", h)
                       /\ Copies(code, file, p, h - 1)
  BY BeforeAt
<1>4. PICK e \in Nat : /\ FirstAt(file, p, h - 1, "=", e)
                       /\ Copies(key, file, p, e - 1)
                       /\ Has(code, "=") <=> e <= h - 1
                       /\ e <= h - 1 => Copies(val, file, e + 1, h - 1)
  <2> HIDE DEF code
  <2> QED BY <1>3, BeforeAt
<1> HIDE DEF code, key, val
<1>5. /\ p <= h /\ h <= m + 1 /\ \A k \in p .. h - 1 : file[k] # "#"
      /\ h <= m => file[h] = "#"
  BY <1>1, <1>3 DEF FirstAt
<1>6. /\ p <= e /\ e <= h /\ \A k \in p .. e - 1 : file[k] # "="
      /\ e <= h - 1 => file[e] = "="
  BY <1>1, <1>4, <1>5 DEF FirstAt
<1>7. "#" # Eol /\ "=" # Eol /\ "dns" \notin Blanks /\ Eol \in Blanks
  BY DEF Eol, Blanks
<1> DEFINE b == IF h <= m THEN h ELSE q + 1
<1>8. /\ b \in p .. q + 1 /\ (b > q \/ file[b] = "#")
      /\ b <= h /\ (b = h \/ (b = h - 1 /\ file[b] = Eol))
  <2>1. CASE h <= m
    <3>1. h <= q
      BY <1>1, <1>2, <1>5, <1>7, <2>1
    <3> QED BY <1>2, <1>5, <2>1, <3>1
  <2>2. CASE ~(h <= m)
    <3>1. h = m + 1
      BY <1>1, <1>5, <2>2
    <3> QED BY <1>1, <1>2, <2>2, <3>1
  <2> QED BY <2>1, <2>2
<1>9. b \in Nat
  BY <1>1, <1>2, <1>8
<1> HIDE DEF b
<1>10. ASSUME e <= h - 1
       PROVE  /\ e \in p .. q /\ Splits(p, q, e, b)
              /\ Trim(val) = Trim(SubSeq(file, e + 1, b - 1))
              /\ Trim(key) = <<"dns">> <=> Keyed(p, e)
  <2>1. e < b
    <3>1. CASE b = h BY <1>10, <3>1
    <3>2. CASE b = h - 1 /\ file[b] = Eol
      <4>1. e # b
        BY <1>6, <1>7, <1>10, <3>2
      <4> QED BY <1>9, <1>10, <3>2, <4>1
    <3> QED BY <1>8, <3>1, <3>2
  <2>2. e \in p .. q
    BY <1>1, <1>2, <1>6, <1>8, <1>9, <2>1
  <2>3. Splits(p, q, e, b)
    <3>1. \A i \in p .. b - 1 : i \in p .. h - 1
      BY <1>1, <1>8, <1>9
    <3>2. \A i \in p .. b - 1 : i < e => i \in p .. e - 1
      BY <1>1
    <3> QED BY <1>5, <1>6, <1>8, <1>10, <2>1, <3>1, <3>2 DEF Splits
  <2>4. Copies(val, file, e + 1, h - 1)
    BY <1>4, <1>10
  <2>5. Copies(SubSeq(file, e + 1, b - 1), file, e + 1, b - 1)
    <3>1. Part(file, e + 1, b - 1)
      <4>1. b - 1 <= Len(file) /\ e + 1 <= (b - 1) + 1 /\ b - 1 \in Nat
        BY <1>1, <1>5, <1>8, <1>9, <2>1
      <4> QED BY <4>1 DEF Part
    <3> DEFINE x == e + 1
               y == b - 1
    <3>2. Part(file, x, y)
      BY <3>1
    <3> HIDE DEF x, y
    <3>3. Copies(SubSeq(file, x, y), file, x, y)
      BY <3>2, SubAt
    <3> QED BY <3>3 DEF x, y
  <2>6. Trim(val) = Trim(SubSeq(file, e + 1, b - 1))
    <3>1. CASE b = h
      <4>1. val = SubSeq(file, e + 1, h - 1)
        BY <2>4 DEF Copies
      <4> QED BY <3>1, <4>1
    <3>2. CASE b = h - 1 /\ file[b] = Eol
      <4> DEFINE x == e + 1
                 u == SubSeq(file, x, b - 1)
      <4>1. x <= b /\ file[b] \in Blanks
        BY <1>7, <1>9, <2>1, <3>2
      <4>2. Copies(val, file, x, b) /\ Copies(u, file, x, b - 1)
        BY <2>4, <2>5, <3>2
      <4> HIDE DEF x, u
      <4>3. Trim(val) = Trim(u)
        BY <4>1, <4>2, TrimBlankEnd
      <4> QED BY <4>3 DEF x, u
    <3> QED BY <1>8, <3>1, <3>2
  <2>7. Trim(key) = <<"dns">> <=> Keyed(p, e)
    <3> DEFINE y == e - 1
    <3>1. Copies(key, file, p, y)
      BY <1>4
    <3> HIDE DEF y
    <3>2. Trim(key) = <<"dns">> <=>
            \E k \in p .. y : /\ file[k] = "dns"
                              /\ \A l \in (p .. y) \ {k} : file[l] \in Blanks
      BY <1>7, <3>1, TrimWord
    <3> QED BY <3>2 DEF y, Keyed
  <2> QED BY <2>2, <2>3, <2>6, <2>7
<1>11. Setting(line) = IF e <= h - 1 /\ Trim(key) = <<"dns">>
                          /\ Len(Trim(val)) < ValueCap
                       THEN Trim(val) ELSE <<>>
  BY <1>4, Zenon DEF Setting, code, key, val
<1>12. ASSUME Setting(line) = w, w # <<>> PROVE Sets(<<p, q>>, w)
  <2>1. /\ e <= h - 1 /\ Trim(key) = <<"dns">> /\ Len(Trim(val)) < ValueCap
        /\ w = Trim(val)
    BY <1>11, <1>12
  <2>2. /\ e \in p .. q /\ b \in p .. q + 1
        /\ Splits(p, q, e, b) /\ Keyed(p, e)
        /\ w = Trim(SubSeq(file, e + 1, b - 1))
        /\ w # <<>> /\ Len(w) < ValueCap
    BY <1>8, <1>10, <1>12, <2>1
  <2> QED BY <2>2, SetsIs, Zenon
<1>13. ASSUME Sets(<<p, q>>, w) PROVE Setting(line) = w /\ w # <<>>
  <2>1. PICK d \in p .. q, c \in p .. q + 1 :
          /\ Splits(p, q, d, c) /\ Keyed(p, d)
          /\ w = Trim(SubSeq(file, d + 1, c - 1))
          /\ w # <<>> /\ Len(w) < ValueCap
    BY <1>13, SetsIs, Zenon
  <2>2. /\ file[d] = "=" /\ d < c /\ (c > q \/ file[c] = "#")
        /\ \A i \in p .. c - 1 : file[i] # "#" /\ (i < d => file[i] # "=")
    BY <2>1 DEF Splits
  <2>3. d \in Nat /\ c \in Nat /\ p <= d /\ p <= c /\ c <= q + 1 /\ d <= q
    BY <1>1, <1>2, <2>1
  <2>4. c = b
    <3>1. ASSUME c < b PROVE FALSE
      <4>1. c <= q /\ c \in p .. h - 1
        BY <1>1, <1>2, <1>8, <1>9, <2>3, <3>1
      <4> QED BY <1>5, <2>2, <2>3, <1>2, <4>1
    <3>2. ASSUME b < c PROVE FALSE
      <4>1. b <= q /\ b \in p .. c - 1
        BY <1>1, <1>2, <1>8, <1>9, <2>3, <3>2
      <4> QED BY <1>2, <1>8, <1>9, <2>2, <4>1
    <3> QED BY <1>9, <2>3, <3>1, <3>2
  <2>5. d \in p .. h - 1
    BY <1>1, <1>8, <1>9, <2>2, <2>3, <2>4
  <2>6. ~(d < e)
    BY <1>1, <1>6, <2>2, <2>3, <2>5
  <2>7. e <= h - 1 /\ file[e] = "="
    BY <1>6, <2>3, <2>5, <2>6
  <2>8. ~(e < d)
    <3>1. e < d => e \in p .. c - 1
      BY <1>1, <1>6, <2>2, <2>3
    <3> QED BY <2>2, <2>7, <3>1
  <2>9. d = e
    BY <2>3, <2>6, <2>8
  <2>10. w = Trim(val) /\ Trim(key) = <<"dns">>
    BY <1>10, <2>1, <2>4, <2>7, <2>9
  <2> QED BY <1>11, <2>1, <2>7, <2>10
<1> QED BY <1>12, <1>13 DEF q

\* Every line of f fits into the buffer, with what ends it.
Fits(f) ==
  \A i \in 1 .. Len(f) : \A j \in i .. Len(f) :
    (\A k \in i .. j - 1 : f[k] # Eol) => (j - i) + 1 < LineCap
LinesFit == \A f \in File : Fits(f)

LEMMA LineAt ==
  ASSUME file \in Seq(STRING), Fits(file), pos \in Nat \ {0}, pos <= Len(file)
  PROVE  \E m \in Nat : EndsAt(pos, m) /\ Copies(Line, file, pos, m)
<1> DEFINE N == Len(file)
           rest == SubSeq(file, pos, N)
           whole == IF Has(rest, Eol) THEN Append(Before(rest, Eol), Eol)
                    ELSE rest
<1>1. N \in Nat /\ pos \in Nat \ {0} /\ pos <= N
  OBVIOUS
<1>2. Copies(rest, file, pos, N)
  <2>1. Part(file, pos, N)
    BY <1>1 DEF Part
  <2> HIDE DEF N
  <2> QED BY <2>1, SubAt
<1>3. Line = IF Len(whole) < LineCap THEN whole
             ELSE SubSeq(whole, 1, LineCap - 1)
  BY DEF Line
<1>4. PICK n \in Nat : /\ FirstAt(file, pos, N, Eol, n)
                       /\ Copies(Before(rest, Eol), file, pos, n - 1)
                       /\ Has(rest, Eol) <=> n <= N
  <2> HIDE DEF rest, N
  <2> QED BY <1>2, BeforeAt
<1>5. /\ pos <= n /\ n <= N + 1 /\ \A k \in pos .. n - 1 : file[k] # Eol
      /\ n <= N => file[n] = Eol
  BY <1>1, <1>4 DEF FirstAt
<1> HIDE DEF rest
<1> DEFINE m == IF n <= N THEN n ELSE N
<1>6. m \in Nat /\ EndsAt(pos, m)
  <2>1. m \in pos .. N /\ m \in Nat /\ m <= n
    BY <1>1, <1>5
  <2>2. m = N \/ file[m] = Eol
    BY <1>5
  <2> HIDE DEF m
  <2>3. \A k \in pos .. m - 1 : file[k] # Eol
    BY <1>1, <1>5, <2>1
  <2> QED BY <1>1, <2>1, <2>2, <2>3 DEF EndsAt
<1>7. Copies(whole, file, pos, m)
  <2>1. CASE n <= N
    <3> DEFINE s == Before(rest, Eol)
    <3>1. /\ s \in Seq(STRING) /\ Len(s) = ((n - 1) - pos) + 1
          /\ \A k \in 1 .. ((n - 1) - pos) + 1 : s[k] = file[(pos + k) - 1]
      BY <1>4 DEF Copies
    <3>2. whole = Append(s, Eol)
      BY <1>4, <2>1
    <3> HIDE DEF s, whole, N
    <3>3. ((n - 1) - pos) + 1 = n - pos /\ n - pos \in Nat
      BY <1>1, <1>5
    <3>4. Part(file, pos, n)
      BY <1>1, <1>5, <2>1 DEF Part, N
    <3>5. Copies(SubSeq(file, pos, n), file, pos, n)
      BY <3>4, SubAt
    <3> DEFINE t == SubSeq(file, pos, n)
    <3>6. /\ t \in Seq(STRING) /\ Len(t) = (n - pos) + 1
          /\ \A k \in 1 .. (n - pos) + 1 : t[k] = file[(pos + k) - 1]
      BY <3>5 DEF Copies
    <3> HIDE DEF t
    <3>7. file[n] = Eol /\ Eol \in STRING
      <4>1. file[n] = Eol
        BY <1>5, <2>1
      <4>2. n \in 1 .. Len(file)
        BY <1>1, <1>5, <2>1 DEF N
      <4>3. file[n] \in STRING
        BY <4>2
      <4> QED BY <4>1, <4>3
    <3> DEFINE d == n - pos
    <3>8. /\ whole \in Seq(STRING) /\ Len(whole) = d + 1
          /\ whole[d + 1] = Eol /\ \A k \in 1 .. d : whole[k] = s[k]
      <4>1. s \in Seq(STRING) /\ Len(s) = d
        BY <3>1, <3>3
      <4> HIDE DEF d
      <4>2. /\ whole \in Seq(STRING) /\ Len(whole) = Len(s) + 1
            /\ whole[Len(s) + 1] = Eol
            /\ \A k \in 1 .. Len(s) : whole[k] = s[k]
        <5>1. Eol \in STRING
          BY <3>7
        <5> DEFINE x == Eol
        <5> HIDE DEF x
        <5>2. x \in STRING /\ whole = Append(s, x)
          BY <3>2, <5>1 DEF x
        <5>3. Append(s, x) \in Seq(STRING)
          BY <4>1, <5>2, AppendProperties
        <5>4. Len(Append(s, x)) = Len(s) + 1
          BY <4>1, <5>2, AppendProperties
        <5>5. Append(s, x)[Len(s) + 1] = x
          BY <4>1, <5>2, AppendProperties
        <5>6. \A k \in 1 .. Len(s) : Append(s, x)[k] = s[k]
          <6>1. s \in Seq(STRING)
            BY <4>1
          <6> QED BY ONLY <6>1
        <5> QED BY <5>2, <5>3, <5>4, <5>5, <5>6 DEF x
      <4> QED BY <4>1, <4>2
    <3>9. ASSUME NEW k \in 1 .. d + 1 PROVE whole[k] = t[k]
      <4>1. CASE k = d + 1
        <5>1. (pos + k) - 1 = n
          BY <1>1, <4>1
        <5>2. t[k] = file[(pos + k) - 1]
          BY <3>6
        <5> QED BY <3>7, <3>8, <4>1, <5>1, <5>2
      <4>2. CASE k # d + 1
        <5>1. k \in 1 .. d /\ k \in 1 .. d + 1
          BY <3>3, <4>2
        <5>2. s[k] = file[(pos + k) - 1] /\ t[k] = file[(pos + k) - 1]
          BY <3>1, <3>3, <3>6, <5>1
        <5> QED BY <3>8, <5>1, <5>2
      <4> QED BY <4>1, <4>2
    <3>10. whole = t
      BY <3>6, <3>8, <3>9, SeqEqual
    <3>11. m = n
      BY <2>1
    <3> QED BY <3>5, <3>10, <3>11 DEF t
  <2>2. CASE ~(n <= N)
    <3>1. whole = rest /\ m = N
      BY <1>4, <2>2
    <3> QED BY <1>2, <3>1
  <2> QED BY <2>1, <2>2
<1> HIDE DEF whole, m
<1>8. Len(whole) < LineCap
  <2>1. Len(whole) = (m - pos) + 1
    BY <1>7 DEF Copies
  <2>2. pos \in 1 .. Len(file) /\ m \in pos .. Len(file)
    BY <1>1, <1>6 DEF EndsAt
  <2>3. \A k \in pos .. m - 1 : file[k] # Eol
    BY <1>6 DEF EndsAt
  <2> QED BY <2>1, <2>2, <2>3 DEF Fits
<1>9. Line = whole
  BY <1>3, <1>8
<1> QED BY <1>6, <1>7, <1>9

-------------------------------------------------------------------------------
(* Reading the file, line by line.                                         *)

\* Only a text that a line has can be set by it.
LEMMA SetsAnyIs ==
  ASSUME NEW l \in Lines
  PROVE  SetsAny(l) <=> \E v : Sets(l, v)
<1>1. PICK p, q : l = <<p, q>> /\ p \in 1 .. Len(file) /\ q \in 1 .. Len(file)
  BY DEF Lines
<1>2. l[1] = p /\ l[2] = q
  BY <1>1
<1>3. SetsAny(l) => \E v : Sets(l, v)
  BY Zenon DEF SetsAny
<1>4. ASSUME NEW v, Sets(l, v) PROVE SetsAny(l)
  <2>1. PICK e \in p .. q, b \in p .. q + 1 :
          /\ Splits(p, q, e, b)
          /\ v = Trim(SubSeq(file, e + 1, b - 1)) /\ v # <<>>
    BY <1>1, <1>4, SetsIs, Zenon
  <2>2. p \in Nat /\ q \in Nat /\ e < b
    BY <1>1, <2>1 DEF Splits
  <2>3. e + 1 <= b - 1
    <3> SUFFICES ASSUME ~(e + 1 <= b - 1) PROVE FALSE
      OBVIOUS
    <3>1. b - 1 < e + 1
      BY <2>2
    <3> DEFINE x == e + 1
               y == b - 1
               t == SubSeq(file, x, y)
    <3>2. x \in Int /\ y \in Int /\ y < x
      BY <2>2, <3>1
    <3> HIDE DEF x, y
    <3>3. t = <<>>
      BY <3>2, SubSeqEmpty
    <3>4. DOMAIN t = {}
      BY <3>3
    <3> HIDE DEF t
    <3>5. Trim(t) = <<>>
      BY <3>4 DEF Trim
    <3> QED BY <2>1, <3>5 DEF t, x, y
  <2>4. e + 1 \in p .. q /\ b - 1 \in e + 1 .. q
    BY <2>2, <2>3
  <2> DEFINE x == e + 1
             y == b - 1
  <2>5. x \in l[1] .. l[2] /\ y \in x .. l[2]
        /\ Sets(l, Trim(SubSeq(file, x, y)))
    BY <1>2, <1>4, <2>1, <2>4
  <2> HIDE DEF x, y
  <2> QED BY <2>5, Zenon DEF SetsAny
<1> QED BY <1>3, <1>4

\* Reading is at the beginning of a line, and nothing has been cut.
Reading ==
  /\ file \in Seq(STRING) /\ Fits(file)
  /\ pos \in Nat \ {0}
  /\ pos <= Len(file) /\ pos # 1 => file[pos - 1] = Eol

\* v is the value of the last line before p that sets one.
LastSoFar(p, v) ==
  \/ v = <<>> /\ \A l \in Lines : l[1] < p => ~SetsAny(l)
  \/ \E l \in Lines :
       /\ l[1] < p /\ Sets(l, v)
       /\ \A k \in Lines : k[1] < p /\ SetsAny(k) => k[1] <= l[1]
ValueSoFar == \A p, v : p = pos /\ v = value => LastSoFar(p, v)

\* Between pos and what ReadLine reads next there is one line at the most.
LEMMA LineRead ==
  ASSUME Reading, pos <= Len(file), NEW m \in Nat, EndsAt(pos, m)
  PROVE  /\ \A k \in Lines : k[1] <= m => k[1] < pos \/ k = <<pos, LastOf(m)>>
         /\ pos <= LastOf(m) => <<pos, LastOf(m)>> \in Lines
<1> DEFINE q == LastOf(m)
<1>1. /\ pos \in Nat \ {0} /\ pos <= m /\ m <= Len(file)
      /\ \A k \in pos .. m - 1 : file[k] # Eol
      /\ m = Len(file) \/ file[m] = Eol
      /\ Len(file) \in Nat
  BY DEF EndsAt, Reading
<1>2. /\ file[m] = Eol => q = m - 1
      /\ file[m] # Eol => q = m /\ m = Len(file)
  BY <1>1 DEF LastOf
<1> HIDE DEF q
<1>3. ASSUME NEW k \in Lines, k[1] <= m, ~(k[1] < pos) PROVE k = <<pos, q>>
  <2>1. PICK c \in 1 .. Len(file), d \in 1 .. Len(file) : k = <<c, d>>
    BY DEF Lines
  <2>2. k[1] = c /\ k[2] = d
    BY <2>1
  <2>3. /\ c <= d /\ \A i \in c .. d : file[i] # Eol
        /\ c = 1 \/ file[c - 1] = Eol
        /\ d = Len(file) \/ file[d + 1] = Eol
    BY <2>2 DEF Lines
  <2>4. c = pos
    <3> SUFFICES ASSUME pos < c PROVE FALSE
      BY <1>1, <1>3, <2>2
    <3>1. c - 1 \in pos .. m - 1 /\ c # 1
      BY <1>1, <1>3, <2>2
    <3> QED BY <1>1, <2>3, <3>1
  <2>5. d = q
    <3>1. CASE file[m] = Eol
      <4>1. d < m
        BY <1>1, <2>3, <2>4, <3>1
      <4>2. d + 1 \in pos .. m /\ file[d + 1] = Eol
        BY <1>1, <2>3, <2>4, <4>1
      <4>3. d + 1 = m
        BY <1>1, <4>1, <4>2
      <4> QED BY <1>2, <3>1, <4>3
    <3>2. CASE file[m] # Eol
      <4>1. q = m /\ m = Len(file)
        BY <1>2, <3>2
      <4>2. ASSUME d < m PROVE FALSE
        <5>1. d + 1 \in pos .. m /\ file[d + 1] = Eol
          BY <1>1, <2>3, <2>4, <4>1, <4>2
        <5> QED BY <1>1, <3>2, <5>1
      <4> QED BY <4>1, <4>2
    <3> QED BY <3>1, <3>2
  <2> QED BY <2>1, <2>4, <2>5
<1>4. ASSUME pos <= q PROVE <<pos, q>> \in Lines
  <2> DEFINE l == <<pos, q>>
  <2>1. l[1] = pos /\ l[2] = q
    OBVIOUS
  <2>2. q \in Nat /\ q <= m
    BY <1>1, <1>2
  <2>3. l \in (1 .. Len(file)) \X (1 .. Len(file))
    BY <1>1, <1>4, <2>2
  <2>4. \A i \in pos .. q : file[i] # Eol
    BY <1>1, <1>2, <2>2
  <2>5. pos = 1 \/ file[pos - 1] = Eol
    BY DEF Reading
  <2>6. q = Len(file) \/ file[q + 1] = Eol
    BY <1>1, <1>2
  <2> HIDE DEF l
  <2>7. l \in Lines
    BY <1>4, <2>1, <2>3, <2>4, <2>5, <2>6 DEF Lines
  <2> QED BY <2>7 DEF l
<1> QED BY <1>3, <1>4 DEF q

LEMMA LinesStay ==
  file' = file => \A p, v : LastSoFar(p, v)' <=> LastSoFar(p, v)
<1> SUFFICES ASSUME file' = file, NEW p, NEW v
             PROVE  LastSoFar(p, v)' <=> LastSoFar(p, v)
  OBVIOUS
<1>1. Lines' = Lines
  BY DEF Lines
<1>2. \A l, w : Sets(l, w)' <=> Sets(l, w)
  BY DEF Sets
<1>3. \A l : SetsAny(l)' <=> SetsAny(l)
  BY <1>2, Zenon DEF SetsAny
<1> QED BY <1>1, <1>2, <1>3, Zenon DEF LastSoFar

LEMMA ReadLineKeeps ==
  ASSUME Reading, ValueSoFar, ReadLine
  PROVE  Reading' /\ ValueSoFar'
<1>1. pos <= Len(file) /\ file' = file
  BY DEF ReadLine
<1>2. PICK m \in Nat : EndsAt(pos, m) /\ Copies(Line, file, pos, m)
  BY <1>1, LineAt DEF Reading
<1>3. pos \in Nat /\ pos <= m /\ m <= Len(file) /\ Len(file) \in Nat
  BY <1>2 DEF EndsAt, Reading
<1>4. pos' = m + 1
  <2>1. Len(Line) = (m - pos) + 1 /\ pos' = pos + Len(Line)
    BY <1>2 DEF Copies, ReadLine
  <2> HIDE DEF Line
  <2> QED BY <1>3, <2>1
<1>5. Reading'
  <2>1. m + 1 <= Len(file) => file[(m + 1) - 1] = Eol
    BY <1>2, <1>3 DEF EndsAt
  <2>2. m + 1 \in Nat \ {0}
    OBVIOUS
  <2>3. file' \in Seq(STRING) /\ Fits(file)'
    BY <1>1 DEF Reading, Fits
  <2> QED BY <1>1, <1>4, <2>1, <2>2, <2>3 DEF Reading
<1> DEFINE q == LastOf(m)
           l == <<pos, q>>
<1>6. \A w : Setting(Line) = w /\ w # <<>> <=> Sets(l, w)
  BY <1>2, SettingMeans DEF Reading
<1>7. \A k \in Lines : k[1] < m + 1 => k[1] < pos \/ k = l
  <2>1. \A k \in Lines : k[1] \in Nat
    BY DEF Lines
  <2>2. \A k \in Lines : k[1] <= m => k[1] < pos \/ k = l
    BY <1>1, <1>2, LineRead, Zenon
  <2> HIDE DEF l
  <2> QED BY <2>1, <2>2
<1>8. l[1] = pos
  OBVIOUS
<1>9. \A w : Sets(l, w) => l \in Lines
  <2> SUFFICES ASSUME NEW w, Sets(l, w) PROVE l \in Lines
    OBVIOUS
  <2>1. PICK e \in pos .. q : TRUE
    BY SetsIs, Zenon
  <2>2. q \in Int
    BY <1>3 DEF LastOf
  <2> HIDE DEF q
  <2>3. pos <= q
    BY <1>3, <2>1, <2>2
  <2> QED BY <1>1, <1>2, <2>3, LineRead DEF q
<1> HIDE DEF l, q
<1>10. \A k \in Lines : k[1] \in Nat
  BY DEF Lines
<1> DEFINE w == Setting(Line)
<1>11. value' = IF w = <<>> THEN value ELSE w
  BY DEF ReadLine
<1> HIDE DEF w
<1>12. LastSoFar(pos, value)
  BY DEF ValueSoFar
<1>13. LastSoFar(m + 1, IF w = <<>> THEN value ELSE w)
  <2>1. CASE w = <<>>
    <3>1. ~SetsAny(l) \/ l \notin Lines
      <4>1. \A u : ~Sets(l, u)
        BY <1>6, <2>1 DEF w
      <4> QED BY <4>1, SetsAnyIs, Zenon
    <3>2. \A k \in Lines : k[1] < m + 1 /\ SetsAny(k) => k[1] < pos
      BY <1>7, <3>1
    <3>3. \A k \in Lines : k[1] < pos => k[1] < m + 1
      BY <1>3, <1>10
    <3>4. LastSoFar(m + 1, value)
      <4>1. CASE value = <<>> /\ \A k \in Lines : k[1] < pos => ~SetsAny(k)
        BY <3>2, <4>1, Zenon DEF LastSoFar
      <4>2. ASSUME NEW k \in Lines, k[1] < pos, Sets(k, value),
                   \A i \in Lines : i[1] < pos /\ SetsAny(i) => i[1] <= k[1]
            PROVE  LastSoFar(m + 1, value)
        <5>1. /\ k[1] < m + 1
              /\ \A i \in Lines : i[1] < m + 1 /\ SetsAny(i) => i[1] <= k[1]
          BY <3>2, <3>3, <4>2, Zenon
        <5> QED BY <4>2, <5>1, Zenon DEF LastSoFar
      <4> QED BY <1>12, <4>1, <4>2, Zenon DEF LastSoFar
    <3> QED BY <2>1, <3>4
  <2>2. CASE w # <<>>
    <3>1. Sets(l, w) /\ l \in Lines
      BY <1>6, <1>9, <2>2 DEF w
    <3>2. l[1] < m + 1
      BY <1>3, <1>8
    <3>3. \A k \in Lines : k[1] < m + 1 => k[1] <= l[1]
      BY <1>3, <1>7, <1>8, <1>10
    <3>4. LastSoFar(m + 1, w)
      BY <3>1, <3>2, <3>3, Zenon DEF LastSoFar
    <3> QED BY <2>2, <3>4
  <2> QED BY <2>1, <2>2
<1>14. ValueSoFar'
  <2> SUFFICES ASSUME NEW p, NEW v, p = pos', v = value'
               PROVE  LastSoFar(p, v)'
    BY DEF ValueSoFar
  <2>1. LastSoFar(p, v)
    BY <1>4, <1>11, <1>13
  <2> QED BY <1>1, <2>1, LinesStay
<1> QED BY <1>5, <1>14

LEMMA NothingRead == file = <<>> => Lines = {}
<1> SUFFICES ASSUME file = <<>>, NEW l \in Lines PROVE FALSE
  OBVIOUS
<1>1. l[1] \in 1 .. Len(file) /\ Len(file) = 0
  BY DEF Lines
<1> QED BY <1>1

LEMMA ReadingInit ==
  ASSUME LinesFit, ConfigInit
  PROVE  Reading /\ ValueSoFar
<1>1. file \in File /\ pos = 1 /\ value = <<>>
  BY DEF ConfigInit
<1>2. Reading
  BY <1>1, ConfigAssumption DEF Reading, LinesFit
<1>3. LastSoFar(1, <<>>)
  <2>1. \A l \in Lines : l[1] \in Nat /\ 1 <= l[1]
    BY DEF Lines
  <2>2. \A l \in Lines : ~(l[1] < 1)
    BY <2>1
  <2> QED BY <2>2, Zenon DEF LastSoFar
<1> QED BY <1>1, <1>2, <1>3 DEF ValueSoFar

LEMMA ReadingStep ==
  Reading /\ ValueSoFar /\ [LookupNext]_lookupVars => Reading' /\ ValueSoFar'
<1> SUFFICES ASSUME Reading, ValueSoFar, [LookupNext]_lookupVars
             PROVE  Reading' /\ ValueSoFar'
  OBVIOUS
<1>1. CASE ReadFile
  BY <1>1, ReadLineKeeps DEF ReadFile
<1>2. CASE Configured
  <2>1. file' = <<>> /\ pos' = 1 /\ value' = <<>>
    BY <1>2 DEF Configured
  <2>2. Reading'
    <3>1. <<>> \in Seq(STRING) /\ Len(<<>>) = 0
      OBVIOUS
    <3>2. Fits(<<>>)
      BY <3>1 DEF Fits
    <3>3. Fits(file)'
      BY <2>1, <3>2 DEF Fits
    <3> QED BY <2>1, <3>1, <3>3 DEF Reading
  <2>3. Lines' = {}
    <3>1. (file = <<>> => Lines = {})'
      BY NothingRead, PTL
    <3> QED BY <2>1, <3>1
  <2>4. ValueSoFar'
    BY <2>1, <2>3, Zenon DEF ValueSoFar, LastSoFar
  <2> QED BY <2>2, <2>4
<1>3. CASE UNCHANGED configVars
  <2>1. file' = file /\ pos' = pos /\ value' = value
    BY <1>3 DEF configVars
  <2>2. Reading'
    BY <2>1 DEF Reading, Fits
  <2>3. ValueSoFar'
    BY <2>1, LinesStay DEF ValueSoFar
  <2> QED BY <2>2, <2>3
<1>4. ReadFile \/ Configured \/ UNCHANGED configVars
  BY DEF LookupNext, LookupStep, lookupVars
<1> QED BY <1>1, <1>2, <1>3, <1>4

\* Of a file whose lines fit into the buffer, however many they are and
\* whatever stands in them, config_dns returns what the last line that sets
\* `dns` gives it (config_dns). A line that does not fit is taken for several.
THEOREM LastLineWins ==
  ASSUME LinesFit
  PROVE  LookupFairSpec => []LastWins
<1>1. LookupInit => Reading /\ ValueSoFar
  BY ReadingInit DEF LookupInit
<1>2. Reading /\ ValueSoFar /\ [LookupNext]_lookupVars
        => (Reading /\ ValueSoFar)'
  BY ReadingStep
<1>3. Reading /\ ValueSoFar => LastWins
  <2> SUFFICES ASSUME Reading, ValueSoFar, pos > Len(file)
               PROVE  IF \E l \in Lines : SetsAny(l)
                      THEN \E l \in Lines :
                             /\ Sets(l, value)
                             /\ \A m \in Lines : SetsAny(m) => m[1] <= l[1]
                      ELSE value = <<>>
    BY DEF LastWins, Eof
  <2>1. \A l \in Lines : l[1] < pos
    <3>1. \A l \in Lines : l[1] \in Nat /\ l[1] <= Len(file)
      BY DEF Lines, Reading
    <3>2. pos \in Nat /\ Len(file) \in Nat
      BY DEF Reading
    <3> QED BY <3>1, <3>2
  <2>2. LastSoFar(pos, value)
    BY DEF ValueSoFar
  <2>3. CASE value = <<>> /\ \A l \in Lines : l[1] < pos => ~SetsAny(l)
    BY <2>1, <2>3, Zenon
  <2>4. ASSUME NEW l \in Lines, Sets(l, value),
               \A k \in Lines : k[1] < pos /\ SetsAny(k) => k[1] <= l[1]
        PROVE  \E k \in Lines :
                 /\ SetsAny(k) /\ Sets(k, value)
                 /\ \A m \in Lines : SetsAny(m) => m[1] <= k[1]
    <3>1. SetsAny(l)
      BY <2>4, SetsAnyIs, Zenon
    <3> QED BY <2>1, <2>4, <3>1, Zenon
  <2> QED BY <2>2, <2>3, <2>4, Zenon DEF LastSoFar
<1> QED BY <1>1, <1>2, <1>3, PTL DEF LookupFairSpec

-------------------------------------------------------------------------------
(* The chains again, of lookups whose resolvers come out of the file: what *)
(* the configuration holds does not matter to them.                        *)

Accounts ==
  /\ ours \in Nat /\ real \in Nat /\ heldOurs \in Nat /\ heldReal \in Nat
  /\ ChainsAccounted

LEMMA AccountsStep ==
  ASSUME Accounts, Next
  PROVE  Accounts'
<1> USE DEF Accounts, ChainsAccounted, InLookup
<1>1. ASSUME FreeAddrInfo PROVE Accounts'
  BY <1>1 DEF FreeAddrInfo
<1>2. ASSUME NEW d \in {"getaddrinfo", "gethostbyname"}, NEW n \in Nodes,
             NEW f \in {"v4", "v6", "any"}, Lookup(d, n, f)
      PROVE  Accounts'
  BY <1>2 DEF Lookup, memory
<1>3. ASSUME OsFinds PROVE Accounts'
  BY <1>3 DEF OsFinds, Answer
<1>4. ASSUME NEW f \in Failures, OsFails(f) PROVE Accounts'
  BY <1>4 DEF OsFails, Answer, memory
<1>5. ASSUME Resolvers PROVE Accounts'
  BY <1>5 DEF Resolvers, Answer, memory
<1>6. ASSUME Alloc PROVE Accounts'
  BY <1>6 DEF Alloc, Answer
<1>7. ASSUME StartType PROVE Accounts'
  BY <1>7 DEF StartType, NextType, memory
<1>8. ASSUME NEW reply \in Reply, AskUdp(reply) \/ AskDoh(reply) PROVE Accounts'
  BY <1>8 DEF AskUdp, AskDoh, Exchange, memory
<1>9. ASSUME EndUdp PROVE Accounts'
  BY <1>9 DEF EndUdp, NextType, memory
<1>10. ASSUME EndDoh PROVE Accounts'
  BY <1>10 DEF EndDoh, NextType, memory
<1>11. ASSUME FindNothing PROVE Accounts'
  BY <1>11 DEF FindNothing, AllAsked, Answer
<1>12. ASSUME Find PROVE Accounts'
  BY <1>12 DEF Find, AllAsked, Answer
<1> HIDE DEF Accounts
<1> QED BY <1>1, <1>2, <1>3, <1>4, <1>5, <1>6, <1>7, <1>8, <1>9, <1>10, <1>11,
           <1>12 DEF Next, Caller, Step

\* Whatever the file names as resolvers, chains are freed once, by the
\* allocator they came from, and none is lost (fb_freeaddrinfo).
THEOREM FileAccounted == LookupFairSpec => []ChainsAccounted
<1>1. LookupInit => Accounts
  BY DEF LookupInit, Init, Accounts, ChainsAccounted, InLookup
<1>2. Accounts /\ [LookupNext]_lookupVars => Accounts'
  <2> SUFFICES ASSUME Accounts, [LookupNext]_lookupVars PROVE Accounts'
    OBVIOUS
  <2>1. Next \/ UNCHANGED <<pc, memory>>
    BY DEF LookupNext, LookupStep, ReadFile, Configured, lookupVars, vars, Next
  <2>2. CASE UNCHANGED <<pc, memory>>
    BY <2>2 DEF memory, Accounts, ChainsAccounted, InLookup
  <2> QED BY <2>1, <2>2, AccountsStep
<1>3. Accounts => ChainsAccounted
  BY DEF Accounts
<1> QED BY <1>1, <1>2, <1>3, PTL DEF LookupFairSpec
===============================================================================
