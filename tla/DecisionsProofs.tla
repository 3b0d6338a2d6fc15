--------------------------- MODULE DecisionsProofs ---------------------------
(***************************************************************************)
(* Proofs about the stateless decisions: for every set of inputs that      *)
(* satisfies InputsAssumption: identifiers of any length over any          *)
(* alphabet, the separators included, any directory and any time.          *)
(*                                                                         *)
(* Every behaviour takes one input, so the invariant is only that the      *)
(* input is one of them (InputInv); the work is in the lemmas about the    *)
(* operators that decide.                                                  *)
(***************************************************************************)
EXTENDS Decisions, TLAPS, SequenceTheorems

\* The inputs there are.
Inputs ==
    [kind : {"keys"}, c : Connections, d : Connections]
    \cup [kind : {"session"}, session : Sessions, directory : Directories, now : 0..MaxTime]
    \cup [kind : {"reference"}, session : Sessions, ref : References,
          type : ReferenceTypes, directory : Directories]
    \cup [kind : {"urls"}, url : Urls, other : Urls]
InputInv == input = None \/ input \in Inputs

\* A behaviour has no input, or one of those it was offered.
LEMMA InputIsOffered == Spec => []InputInv
  <1>1. Init => InputInv
    BY DEF Init, InputInv
  <1>2. InputInv /\ [Next]_input => InputInv'
    <2> SUFFICES ASSUME InputInv, [Next]_input PROVE InputInv'
      OBVIOUS
    <2>1. CASE UNCHANGED input
      BY <2>1 DEF InputInv
    <2>2. CASE PresentConnections
      BY <2>2 DEF PresentConnections, InputInv, Inputs
    <2>3. CASE PresentSession
      BY <2>3 DEF PresentSession, InputInv, Inputs
    <2>4. CASE PresentReference
      BY <2>4 DEF PresentReference, InputInv, Inputs
    <2>5. CASE PresentUrls
      BY <2>5 DEF PresentUrls, InputInv, Inputs
    <2> QED
      BY <2>1, <2>2, <2>3, <2>4, <2>5 DEF Next
  <1> QED
    BY <1>1, <1>2, PTL DEF Spec

-----------------------------------------------------------------------------
(* Keys.  A separator that is in neither of two identifiers can be told    *)
(* from their characters by its place alone, whatever follows it.          *)

\* A word, a separator and a word.
Joined(s, h, t) == s \o <<h>> \o t

\* The separator is not in the word.
Without(s, h) == \A i \in DOMAIN s : s[i] # h

LEMMA NeitherLess ==
    ASSUME NEW m \in Nat, NEW n \in Nat, ~(m < n), ~(n < m)
    PROVE  m = n
  OBVIOUS

\* The word w is s, h and t, character by character.
IsJoined(w, s, h, t) ==
    /\ w \in Seq(Character) /\ Len(w) = Len(s) + 1 + Len(t)
    /\ \A i \in 1..Len(s) : w[i] = s[i]
    /\ w[Len(s) + 1] = h
    /\ \A i \in 1..Len(t) : w[Len(s) + 1 + i] = t[i]

LEMMA JoinedCharacters ==
    ASSUME NEW s \in Seq(Character), NEW h \in Character, NEW t \in Seq(Character)
    PROVE  IsJoined(Joined(s, h, t), s, h, t)
  <1> DEFINE sh == s \o <<h>>
             joined == sh \o t
  <1>1. <<h>> \in Seq(Character) /\ Len(<<h>>) = 1 /\ <<h>>[1] = h
    OBVIOUS
  <1>2. /\ sh \in Seq(Character) /\ Len(sh) = Len(s) + 1
        /\ \A i \in 1..Len(s) + 1 : sh[i] = IF i <= Len(s) THEN s[i] ELSE <<h>>[i - Len(s)]
    BY <1>1, ConcatProperties
  <1>3. (\A i \in 1..Len(s) : sh[i] = s[i]) /\ sh[Len(s) + 1] = h
    BY <1>1, <1>2
  <1> HIDE DEF sh
  <1>4. /\ joined \in Seq(Character) /\ Len(joined) = Len(sh) + Len(t)
        /\ \A i \in 1..Len(sh) + Len(t) :
              joined[i] = IF i <= Len(sh) THEN sh[i] ELSE t[i - Len(sh)]
    <2>1. sh \in Seq(Character)
      BY <1>2
    <2> QED
      BY <2>1, ConcatProperties, Zenon
  <1> HIDE DEF joined
  <1>5. Len(s) \in Nat /\ Len(t) \in Nat
    OBVIOUS
  <1>6. (\A i \in 1..Len(s) : joined[i] = s[i]) /\ joined[Len(s) + 1] = h
    BY <1>2, <1>3, <1>4
  <1>7. \A i \in 1..Len(t) : joined[Len(s) + 1 + i] = t[i]
    <2> TAKE i \in 1..Len(t)
    <2> DEFINE place == Len(s) + 1 + i
    <2>1. place \in 1..Len(sh) + Len(t) /\ ~(place <= Len(sh)) /\ place - Len(sh) = i
      BY <1>2, <1>5
    <2> HIDE DEF place
    <2>2. joined[place] = t[i]
      BY <1>4, <2>1
    <2> QED
      BY <2>2 DEF place
  <1> QED
    BY <1>2, <1>4, <1>6, <1>7 DEF joined, sh, Joined, IsJoined

\* Two words that are equal up to a separator neither contains are equal, and
\* so is what follows: a joined identifier has one reading.
LEMMA SplitAtSeparator ==
    ASSUME NEW h \in Character,
           NEW s1 \in Seq(Character), NEW t1 \in Seq(Character),
           NEW s2 \in Seq(Character), NEW t2 \in Seq(Character),
           Without(s1, h), Without(s2, h), Joined(s1, h, t1) = Joined(s2, h, t2)
    PROVE  s1 = s2 /\ t1 = t2
  <1> DEFINE u == Joined(s1, h, t1)
             v == Joined(s2, h, t2)
  <1>1. IsJoined(u, s1, h, t1)
    BY JoinedCharacters, Zenon
  <1>2. IsJoined(v, s2, h, t2)
    BY JoinedCharacters, Zenon
  <1>3. u = v
    OBVIOUS
  <1> HIDE DEF u, v
  <1>4. /\ Len(s1) \in Nat /\ Len(s2) \in Nat /\ Len(t1) \in Nat /\ Len(t2) \in Nat
        /\ DOMAIN s1 = 1..Len(s1) /\ DOMAIN s2 = 1..Len(s2)
    OBVIOUS
  <1>5. ~(Len(s1) < Len(s2))
    <2> SUFFICES ASSUME Len(s1) < Len(s2) PROVE FALSE
      OBVIOUS
    <2>1. Len(s1) + 1 \in 1..Len(s2)
      BY <1>4
    <2> QED
      BY <1>1, <1>2, <1>3, <1>4, <2>1 DEF IsJoined, Without
  <1>6. ~(Len(s2) < Len(s1))
    <2> SUFFICES ASSUME Len(s2) < Len(s1) PROVE FALSE
      OBVIOUS
    <2>1. Len(s2) + 1 \in 1..Len(s1)
      BY <1>4
    <2> QED
      BY <1>1, <1>2, <1>3, <1>4, <2>1 DEF IsJoined, Without
  <1>7. Len(s1) = Len(s2) /\ Len(t1) = Len(t2)
    <2>1. Len(s1) = Len(s2)
      BY <1>4, <1>5, <1>6, NeitherLess, Zenon
    <2>2. Len(s1) + 1 + Len(t1) = Len(s1) + 1 + Len(t2)
      BY <1>1, <1>2, <1>3, <2>1 DEF IsJoined
    <2> QED
      BY <1>4, <2>1, <2>2
  <1>8. s1 = s2
    <2>1. \A i \in 1..Len(s1) : s1[i] = s2[i]
      BY <1>1, <1>2, <1>3, <1>7 DEF IsJoined
    <2> QED
      BY <1>7, <2>1, SeqEqual
  <1>9. t1 = t2
    <2>1. \A i \in 1..Len(t1) : t1[i] = t2[i]
      BY <1>1, <1>2, <1>3, <1>7 DEF IsJoined
    <2> QED
      BY <1>7, <2>1, SeqEqual
  <1> QED
    BY <1>8, <1>9

\* IsPrefix, character by character.
LEMMA PrefixCharacters ==
    ASSUME NEW s \in Seq(Character), NEW t \in Seq(Character)
    PROVE  IsPrefix(s, t) <=>
              Len(s) <= Len(t) /\ \A i \in 1..Len(s) : s[i] = t[i]
  <1>1. /\ Len(s) \in Nat /\ Len(t) \in Nat
        /\ DOMAIN s = 1..Len(s) /\ DOMAIN t = 1..Len(t)
    OBVIOUS
  <1>2. CASE Len(s) <= Len(t)
    <2> DEFINE start == SubSeq(s, 1, Len(s))
               other == SubSeq(t, 1, Len(s))
    <2>1. /\ start \in Seq(Character) /\ Len(start) = Len(s)
          /\ \A i \in 1..Len(s) : start[i] = s[i]
      <3>1. 1 \in Int /\ Len(s) \in Int /\ \A i \in 1..Len(s) : s[i] \in Character
        BY <1>1
      <3> QED
        BY <1>1, <3>1, SubSeqProperties
    <2>2. /\ other \in Seq(Character) /\ Len(other) = Len(s)
          /\ \A i \in 1..Len(s) : other[i] = t[i]
      <3>1. 1 \in Int /\ Len(s) \in Int /\ \A i \in 1..Len(s) : t[i] \in Character
        BY <1>1, <1>2
      <3> QED
        BY <1>1, <3>1, SubSeqProperties
    <2>3. IsPrefix(s, t) <=> start = other
      BY <1>2 DEF IsPrefix
    <2> HIDE DEF start, other
    <2>4. start = other <=> \A i \in 1..Len(s) : start[i] = other[i]
      BY <2>1, <2>2, SeqEqual
    <2> QED
      BY <1>2, <2>1, <2>2, <2>3, <2>4
  <1>3. CASE ~(Len(s) <= Len(t))
    BY <1>3 DEF IsPrefix
  <1> QED
    BY <1>2, <1>3

\* A word that ends in a separator, with a word behind it, begins another such
\* word only when the parts before the separator are equal.
LEMMA PrefixAtSeparator ==
    ASSUME NEW h \in Character,
           NEW s1 \in Seq(Character), NEW t1 \in Seq(Character),
           NEW s2 \in Seq(Character), NEW t2 \in Seq(Character),
           Without(s1, h), Without(s2, h),
           IsPrefix(Joined(s1, h, t1), Joined(s2, h, t2))
    PROVE  s1 = s2
  <1> DEFINE u == Joined(s1, h, t1)
             v == Joined(s2, h, t2)
  <1>1. IsJoined(u, s1, h, t1)
    BY JoinedCharacters, Zenon
  <1>2. IsJoined(v, s2, h, t2)
    BY JoinedCharacters, Zenon
  <1>3. IsPrefix(u, v)
    OBVIOUS
  <1> HIDE DEF u, v
  <1>4. /\ Len(s1) \in Nat /\ Len(s2) \in Nat /\ Len(t1) \in Nat /\ Len(t2) \in Nat
        /\ DOMAIN s1 = 1..Len(s1) /\ DOMAIN s2 = 1..Len(s2)
        /\ DOMAIN u = 1..Len(u) /\ DOMAIN v = 1..Len(v)
    BY <1>1, <1>2 DEF IsJoined
  <1>5. \A i \in 1..Len(u) : i \in 1..Len(v) /\ u[i] = v[i]
    <2>1. Len(u) <= Len(v) /\ \A i \in 1..Len(u) : u[i] = v[i]
      BY <1>1, <1>2, <1>3, PrefixCharacters, Zenon DEF IsJoined
    <2> QED
      BY <1>1, <1>2, <1>4, <2>1 DEF IsJoined
  <1>6. ~(Len(s1) < Len(s2))
    <2> SUFFICES ASSUME Len(s1) < Len(s2) PROVE FALSE
      OBVIOUS
    <2>1. Len(s1) + 1 \in 1..Len(s2) /\ Len(s1) + 1 \in 1..Len(u)
      BY <1>1, <1>4 DEF IsJoined
    <2> QED
      BY <1>1, <1>2, <1>4, <1>5, <2>1 DEF IsJoined, Without
  <1>7. ~(Len(s2) < Len(s1))
    <2> SUFFICES ASSUME Len(s2) < Len(s1) PROVE FALSE
      OBVIOUS
    <2>1. Len(s2) + 1 \in 1..Len(s1) /\ Len(s2) + 1 \in 1..Len(u)
      BY <1>1, <1>4 DEF IsJoined
    <2> QED
      BY <1>1, <1>2, <1>4, <1>5, <2>1 DEF IsJoined, Without
  <1>8. Len(s1) = Len(s2)
    BY <1>4, <1>6, <1>7, NeitherLess, Zenon
  <1>9. \A i \in 1..Len(s1) : s1[i] = s2[i]
    BY <1>1, <1>2, <1>4, <1>5, <1>8 DEF IsJoined
  <1> QED
    BY <1>8, <1>9, SeqEqual

\* What the assumptions say of a connection and of the parts of its keys.
LEMMA ConnectionParts ==
    ASSUME NEW c \in Connections
    PROVE  /\ c.tenant \in Seq(Character) /\ c.user \in Seq(Character)
           /\ c.account \in Seq(Character)
           /\ c = [tenant |-> c.tenant, user |-> c.user, account |-> c.account]
           /\ \A h : /\ Without(c.tenant, h) <=> ~Holds(c.tenant, h)
                     /\ Without(c.user, h) <=> ~Holds(c.user, h)
  <1>1. c \in [tenant : Seq(Character), user : Seq(Character), account : Seq(Character)]
    BY InputsAssumption
  <1> QED
    BY <1>1 DEF Holds, Without

LEMMA SeparatorParts ==
    /\ Hash \in Character /\ Colon \in Character /\ Provider \in Seq(Character)
    /\ Without(Provider, Hash) /\ Without(Provider, Colon)
  BY SeparatorAssumption DEF Without

LEMMA JoinedIsWord ==
    ASSUME NEW s \in Seq(Character), NEW h \in Character, NEW t \in Seq(Character)
    PROVE  Joined(s, h, t) \in Seq(Character)
  BY JoinedCharacters, Zenon DEF IsJoined

\* What follows the first separator is a word again.
LEMMA JoinedAssociates ==
    ASSUME NEW s \in Seq(Character), NEW h \in Character, NEW t \in Seq(Character),
           NEW g \in Character, NEW r \in Seq(Character)
    PROVE  Joined(Joined(s, h, t), g, r) = Joined(s, h, Joined(t, g, r))
  <1> DEFINE sh == s \o <<h>>
             w == <<g>>
  <1>1. sh \in Seq(Character) /\ w \in Seq(Character)
    OBVIOUS
  <1> HIDE DEF sh, w
  <1>2. ((sh \o t) \o w) \o r = sh \o ((t \o w) \o r)
    <2> DEFINE tw == t \o w
    <2>1. (sh \o t) \o w = sh \o tw
      BY <1>1
    <2>2. tw \in Seq(Character)
      BY <1>1
    <2> HIDE DEF tw
    <2>3. (sh \o tw) \o r = sh \o (tw \o r)
      BY <1>1, <2>2, SMTT(30)
    <2> QED
      BY <2>1, <2>3 DEF tw
  <1> QED
    BY <1>2 DEF sh, w, Joined

\* A sort key is the user, the separator and the rest, and so on.
LEMMA SortKeyIsJoined ==
    ASSUME NEW x \in Connections
    PROVE  /\ SortKey(x.user, x.account) =
                 Joined(x.user, Hash, Joined(Provider, Hash, x.account))
           /\ SortKey(x.user, x.account) =
                 Joined(Joined(x.user, Hash, Provider), Hash, x.account)
           /\ Joined(Provider, Hash, x.account) \in Seq(Character)
  <1>1. SortKey(x.user, x.account) = Joined(Joined(x.user, Hash, Provider), Hash, x.account)
    BY DEF SortKey, Joined
  <1>2. x.user \in Seq(Character) /\ x.account \in Seq(Character)
    BY ConnectionParts, Zenon
  <1> QED
    <2>1. Joined(Provider, Hash, x.account) \in Seq(Character)
      BY <1>2, SeparatorParts, JoinedIsWord, Zenon
    <2>2. Joined(Joined(x.user, Hash, Provider), Hash, x.account) =
             Joined(x.user, Hash, Joined(Provider, Hash, x.account))
      BY <1>2, SeparatorParts, JoinedAssociates
    <2> QED
      BY <1>1, <2>1, <2>2

\* A sort key is read in one way when the users are without its separator.
LEMMA SortKeyReads ==
    ASSUME NEW c \in Connections, NEW d \in Connections,
           Without(c.user, Hash), Without(d.user, Hash),
           SortKey(c.user, c.account) = SortKey(d.user, d.account)
    PROVE  c.user = d.user /\ c.account = d.account
  <1>1. /\ c.user \in Seq(Character) /\ c.account \in Seq(Character)
        /\ d.user \in Seq(Character) /\ d.account \in Seq(Character)
    BY ConnectionParts, Zenon
  <1>2. /\ Joined(Provider, Hash, c.account) \in Seq(Character)
        /\ Joined(Provider, Hash, d.account) \in Seq(Character)
        /\ Joined(c.user, Hash, Joined(Provider, Hash, c.account)) =
              Joined(d.user, Hash, Joined(Provider, Hash, d.account))
    BY SortKeyIsJoined, Zenon
  <1>3. /\ c.user = d.user
        /\ Joined(Provider, Hash, c.account) = Joined(Provider, Hash, d.account)
    <2> DEFINE AfterUser(x) == Joined(Provider, Hash, x.account)
    <2>1. /\ AfterUser(c) \in Seq(Character) /\ AfterUser(d) \in Seq(Character)
          /\ Joined(c.user, Hash, AfterUser(c)) = Joined(d.user, Hash, AfterUser(d))
      BY <1>2
    <2> HIDE DEF AfterUser
    <2>2. c.user = d.user /\ AfterUser(c) = AfterUser(d)
      BY <1>1, <2>1, SeparatorParts, SplitAtSeparator, Zenon
    <2> QED
      BY <2>2 DEF AfterUser
  <1>4. c.account = d.account
    BY <1>1, <1>3, SeparatorParts, SplitAtSeparator, Zenon
  <1> QED
    BY <1>3, <1>4

LEMMA ItemKeyReads ==
    ASSUME NEW c \in Connections, NEW d \in Connections,
           Without(c.user, Hash), Without(d.user, Hash), ItemKey(c) = ItemKey(d)
    PROVE  c = d
  <1>1. c.tenant = d.tenant /\ SortKey(c.user, c.account) = SortKey(d.user, d.account)
    BY DEF ItemKey
  <1>2. c.user = d.user /\ c.account = d.account
    BY <1>1, SortKeyReads, Zenon
  <1> QED
    BY <1>1, <1>2, ConnectionParts

LEMMA MembershipKeyReads ==
    ASSUME NEW c \in Connections, NEW d \in Connections,
           Without(c.tenant, Colon), Without(d.tenant, Colon),
           MembershipKey(c.tenant, c.user) = MembershipKey(d.tenant, d.user)
    PROVE  c.tenant = d.tenant /\ c.user = d.user
  <1>1. /\ c.tenant \in Seq(Character) /\ c.user \in Seq(Character)
        /\ d.tenant \in Seq(Character) /\ d.user \in Seq(Character)
    BY ConnectionParts, Zenon
  <1>2. Joined(c.tenant, Colon, c.user) = Joined(d.tenant, Colon, d.user)
    BY DEF MembershipKey, Joined
  <1> QED
    BY <1>1, <1>2, SeparatorParts, SplitAtSeparator, Zenon

LEMMA TokenKeyIsJoined ==
    ASSUME NEW x \in Connections
    PROVE  /\ TokenKey(x) = Joined(x.tenant, Colon,
                               Joined(x.user, Colon, Joined(Provider, Colon, x.account)))
           /\ Joined(Provider, Colon, x.account) \in Seq(Character)
           /\ Joined(x.user, Colon, Joined(Provider, Colon, x.account)) \in Seq(Character)
  <1>1. TokenKey(x) =
           Joined(Joined(Joined(x.tenant, Colon, x.user), Colon, Provider), Colon, x.account)
    BY DEF TokenKey, Joined
  <1>2. /\ x.tenant \in Seq(Character) /\ x.user \in Seq(Character)
        /\ x.account \in Seq(Character)
    BY ConnectionParts, Zenon
  <1>3. /\ Joined(Provider, Colon, x.account) \in Seq(Character)
        /\ Joined(x.tenant, Colon, x.user) \in Seq(Character)
    BY <1>2, SeparatorParts, JoinedIsWord, Zenon
  <1>4. TokenKey(x) =
           Joined(Joined(x.tenant, Colon, x.user), Colon, Joined(Provider, Colon, x.account))
    <2> DEFINE start == Joined(x.tenant, Colon, x.user)
    <2>1. start \in Seq(Character)
      BY <1>3
    <2> HIDE DEF start
    <2>2. Joined(Joined(start, Colon, Provider), Colon, x.account) =
             Joined(start, Colon, Joined(Provider, Colon, x.account))
      BY <1>2, <2>1, SeparatorParts, JoinedAssociates
    <2> QED
      BY <1>1, <2>2 DEF start
  <1>5. TokenKey(x) = Joined(x.tenant, Colon,
                         Joined(x.user, Colon, Joined(Provider, Colon, x.account)))
    <2> DEFINE rest == Joined(Provider, Colon, x.account)
    <2>1. rest \in Seq(Character)
      BY <1>3
    <2> HIDE DEF rest
    <2>2. Joined(Joined(x.tenant, Colon, x.user), Colon, rest) =
             Joined(x.tenant, Colon, Joined(x.user, Colon, rest))
      BY <1>2, <2>1, SeparatorParts, JoinedAssociates
    <2> QED
      BY <1>4, <2>2 DEF rest
  <1> QED
    BY <1>2, <1>3, <1>5, SeparatorParts, JoinedIsWord, Zenon

\* A key in memory is read in one way when the tenants and users are without
\* its separator.
LEMMA TokenKeyReads ==
    ASSUME NEW c \in Connections, NEW d \in Connections,
           Without(c.tenant, Colon), Without(d.tenant, Colon),
           Without(c.user, Colon), Without(d.user, Colon), TokenKey(c) = TokenKey(d)
    PROVE  c = d
  <1> DEFINE AfterUser(x) == Joined(Provider, Colon, x.account)
             AfterTenant(x) == Joined(x.user, Colon, AfterUser(x))
  <1>1. /\ c.tenant \in Seq(Character) /\ c.user \in Seq(Character)
        /\ d.tenant \in Seq(Character) /\ d.user \in Seq(Character)
        /\ c.account \in Seq(Character) /\ d.account \in Seq(Character)
    BY ConnectionParts, Zenon
  <1>2. /\ AfterUser(c) \in Seq(Character) /\ AfterUser(d) \in Seq(Character)
        /\ AfterTenant(c) \in Seq(Character) /\ AfterTenant(d) \in Seq(Character)
        /\ Joined(c.tenant, Colon, AfterTenant(c)) = Joined(d.tenant, Colon, AfterTenant(d))
    BY TokenKeyIsJoined, Zenon
  <1>3. c.tenant = d.tenant /\ AfterTenant(c) = AfterTenant(d)
    <2> HIDE DEF AfterTenant
    <2> QED
      BY <1>1, <1>2, SeparatorParts, SplitAtSeparator, Zenon
  <1>4. c.user = d.user /\ AfterUser(c) = AfterUser(d)
    <2>1. Joined(c.user, Colon, AfterUser(c)) = Joined(d.user, Colon, AfterUser(d))
      BY <1>3
    <2> HIDE DEF AfterUser
    <2> QED
      BY <1>1, <1>2, <2>1, SeparatorParts, SplitAtSeparator, Zenon
  <1>5. c.account = d.account
    BY <1>1, <1>4, SeparatorParts, SplitAtSeparator, Zenon
  <1> QED
    BY <1>3, <1>4, <1>5, ConnectionParts

\* The prefix of the query selects the records of the user, and none of a user
\* whose id begins with theirs when neither id holds the separator, although
\* nothing ends the prefix.
LEMMA QueryFindsTheUser ==
    ASSUME NEW c \in Connections, NEW x \in Connections
    PROVE  LET found == IsPrefix(c.user \o <<Hash>> \o Provider, SortKey(x.user, x.account)) IN
           /\ x.user = c.user => found
           /\ found /\ Without(c.user, Hash) /\ Without(x.user, Hash) => x.user = c.user
  <1> DEFINE prefix == Joined(c.user, Hash, Provider)
             key == SortKey(x.user, x.account)
  <1>1. /\ c.user \in Seq(Character) /\ x.user \in Seq(Character)
        /\ x.account \in Seq(Character)
    BY ConnectionParts, Zenon
  <1>2. c.user \o <<Hash>> \o Provider = prefix
    BY DEF Joined
  <1>3. ASSUME IsPrefix(prefix, key), Without(c.user, Hash), Without(x.user, Hash)
        PROVE  x.user = c.user
    <2>1. /\ Joined(Provider, Hash, x.account) \in Seq(Character)
          /\ IsPrefix(Joined(c.user, Hash, Provider),
                      Joined(x.user, Hash, Joined(Provider, Hash, x.account)))
      BY <1>3, SortKeyIsJoined, Zenon
    <2> QED
      BY <1>1, <1>3, <2>1, SeparatorParts, PrefixAtSeparator, Zenon
  <1>4. ASSUME x.user = c.user PROVE IsPrefix(prefix, key)
    <2>1. key = Joined(prefix, Hash, x.account)
      BY <1>4, SortKeyIsJoined, Zenon
    <2>2. prefix \in Seq(Character)
      BY <1>1, SeparatorParts, JoinedIsWord, Zenon
    <2> HIDE DEF prefix, key
    <2>3. /\ key \in Seq(Character) /\ Len(key) = Len(prefix) + 1 + Len(x.account)
          /\ \A i \in 1..Len(prefix) : key[i] = prefix[i]
      <3>1. IsJoined(key, prefix, Hash, x.account)
        BY <1>1, <2>1, <2>2, SeparatorParts, JoinedCharacters, Zenon
      <3> QED
        BY <3>1 DEF IsJoined
    <2>4. Len(prefix) \in Nat /\ Len(x.account) \in Nat
      BY <1>1, <2>2
    <2>5. Len(prefix) <= Len(key)
      <3> DEFINE m == Len(prefix)
                 n == Len(x.account)
      <3> HIDE DEF m, n
      <3>1. m \in Nat /\ n \in Nat
        BY <2>4 DEF m, n
      <3>2. m <= m + 1 + n
        BY <3>1
      <3> QED
        BY <2>3, <3>2, Zenon DEF m, n
    <2> QED
      BY <2>2, <2>3, <2>5, PrefixCharacters, Zenon
  <1> QED
    BY <1>2, <1>3, <1>4, Zenon

-----------------------------------------------------------------------------
(* Checks in their order.                                                  *)

\* The answer of a sequence of checks is the code of the one that fails behind
\* passing ones only.
LEMMA RefusedAt ==
    ASSUME NEW n \in Nat, NEW checks, DOMAIN checks = 1..n
    PROVE  /\ \A i \in 1..n : ~checks[i][1] /\ (\A j \in 1..n : j < i => checks[j][1])
                               => FirstRefusal(checks) = checks[i][2]
           /\ (\A i \in 1..n : checks[i][1]) => FirstRefusal(checks) = "granted"
  <1> DEFINE failed == {j \in DOMAIN checks : ~checks[j][1]}
  <1>1. ASSUME NEW i \in 1..n, ~checks[i][1], \A j \in 1..n : j < i => checks[j][1]
        PROVE  FirstRefusal(checks) = checks[i][2]
    <2>1. i \in failed /\ \A j \in failed : i <= j
      BY <1>1
    <2>2. Min(failed) = i
      <3>1. \A k \in failed : (\A j \in failed : k <= j) => k = i
        BY <2>1
      <3> HIDE DEF failed
      <3> QED
        BY <2>1, <3>1 DEF Min
    <2> QED
      BY <2>1, <2>2 DEF FirstRefusal
  <1>2. ASSUME \A i \in 1..n : checks[i][1] PROVE FirstRefusal(checks) = "granted"
    BY <1>2 DEF FirstRefusal
  <1> QED
    BY <1>1, <1>2

\* Two, three and five checks, and the three of a membership.
LEMMA FiveChecks ==
    ASSUME NEW checks, DOMAIN checks = 1..5
    PROVE  FirstRefusal(checks) =
              IF ~checks[1][1] THEN checks[1][2] ELSE IF ~checks[2][1] THEN checks[2][2] ELSE
              IF ~checks[3][1] THEN checks[3][2] ELSE IF ~checks[4][1] THEN checks[4][2] ELSE
              IF ~checks[5][1] THEN checks[5][2] ELSE "granted"
  <1>1. /\ \A i \in 1..5 : ~checks[i][1] /\ (\A j \in 1..5 : j < i => checks[j][1])
                           => FirstRefusal(checks) = checks[i][2]
        /\ (\A i \in 1..5 : checks[i][1]) => FirstRefusal(checks) = "granted"
    <2>1. 5 \in Nat
      OBVIOUS
    <2> QED
      BY <2>1, RefusedAt
  <1> QED
    BY <1>1

LEMMA SixChecks ==
    ASSUME NEW checks, DOMAIN checks = 1..6
    PROVE  FirstRefusal(checks) =
              IF ~checks[1][1] THEN checks[1][2] ELSE IF ~checks[2][1] THEN checks[2][2] ELSE
              IF ~checks[3][1] THEN checks[3][2] ELSE IF ~checks[4][1] THEN checks[4][2] ELSE
              IF ~checks[5][1] THEN checks[5][2] ELSE IF ~checks[6][1] THEN checks[6][2] ELSE
              "granted"
  <1>1. /\ \A i \in 1..6 : ~checks[i][1] /\ (\A j \in 1..6 : j < i => checks[j][1])
                           => FirstRefusal(checks) = checks[i][2]
        /\ (\A i \in 1..6 : checks[i][1]) => FirstRefusal(checks) = "granted"
    <2>1. 6 \in Nat
      OBVIOUS
    <2> QED
      BY <2>1, RefusedAt
  <1> QED
    BY <1>1

LEMMA EightChecks ==
    ASSUME NEW checks, DOMAIN checks = 1..8
    PROVE  FirstRefusal(checks) =
              IF ~checks[1][1] THEN checks[1][2] ELSE IF ~checks[2][1] THEN checks[2][2] ELSE
              IF ~checks[3][1] THEN checks[3][2] ELSE IF ~checks[4][1] THEN checks[4][2] ELSE
              IF ~checks[5][1] THEN checks[5][2] ELSE IF ~checks[6][1] THEN checks[6][2] ELSE
              IF ~checks[7][1] THEN checks[7][2] ELSE IF ~checks[8][1] THEN checks[8][2] ELSE
              "granted"
  <1>1. /\ \A i \in 1..8 : ~checks[i][1] /\ (\A j \in 1..8 : j < i => checks[j][1])
                           => FirstRefusal(checks) = checks[i][2]
        /\ (\A i \in 1..8 : checks[i][1]) => FirstRefusal(checks) = "granted"
    <2>1. 8 \in Nat
      OBVIOUS
    <2> QED
      BY <2>1, RefusedAt
  <1> QED
    BY <1>1

-----------------------------------------------------------------------------
(* What the checks of identity.py and tenancy.py come to.                  *)

\* assert_active_membership, when the other checks have passed.
MembershipCode(tenant, user, directory) ==
    IF tenant \notin directory.tenants THEN "TENANT_DISABLED"
    ELSE IF user \notin directory.users THEN "USER_DISABLED"
    ELSE IF <<tenant, user>> \notin directory.members THEN "TENANT_ACCESS_DENIED" ELSE "granted"

LEMMA SameTenantCode ==
    ASSUME NEW caller, NEW tenant, NEW directory
    PROVE  SameTenant(caller, tenant, directory) =
              IF tenant = Blank THEN "TypeError"
              ELSE IF caller[1] # tenant THEN "TENANT_ACCESS_DENIED"
              ELSE MembershipCode(caller[1], caller[2], directory)
  <1> DEFINE p1 == tenant # Blank
             p2 == caller[1] = tenant
             p3 == caller[1] \in directory.tenants
             p4 == caller[2] \in directory.users
             p5 == <<caller[1], caller[2]>> \in directory.members
             checks == << <<p1, "TypeError">>, <<p2, "TENANT_ACCESS_DENIED">> >>
                       \o << <<p3, "TENANT_DISABLED">>, <<p4, "USER_DISABLED">>,
                             <<p5, "TENANT_ACCESS_DENIED">> >>
  <1>1. p1 \in BOOLEAN /\ p2 \in BOOLEAN /\ p3 \in BOOLEAN /\ p4 \in BOOLEAN /\ p5 \in BOOLEAN
    OBVIOUS
  <1>2. SameTenant(caller, tenant, directory) = FirstRefusal(checks)
    BY DEF SameTenant, MembershipChecks
  <1>3. MembershipCode(caller[1], caller[2], directory) =
           IF ~p3 THEN "TENANT_DISABLED" ELSE IF ~p4 THEN "USER_DISABLED"
           ELSE IF ~p5 THEN "TENANT_ACCESS_DENIED" ELSE "granted"
    BY DEF MembershipCode
  <1>4. (tenant = Blank <=> ~p1) /\ (caller[1] # tenant <=> ~p2)
    OBVIOUS
  <1> HIDE DEF p1, p2, p3, p4, p5
  <1>5. /\ DOMAIN checks = 1..5
        /\ checks[1] = <<p1, "TypeError">>
        /\ checks[2] = <<p2, "TENANT_ACCESS_DENIED">>
        /\ checks[3] = <<p3, "TENANT_DISABLED">>
        /\ checks[4] = <<p4, "USER_DISABLED">>
        /\ checks[5] = <<p5, "TENANT_ACCESS_DENIED">>
    OBVIOUS
  <1> HIDE DEF checks
  <1>6. FirstRefusal(checks) =
           IF ~checks[1][1] THEN checks[1][2] ELSE IF ~checks[2][1] THEN checks[2][2] ELSE
           IF ~checks[3][1] THEN checks[3][2] ELSE IF ~checks[4][1] THEN checks[4][2] ELSE
           IF ~checks[5][1] THEN checks[5][2] ELSE "granted"
    BY <1>5, FiveChecks
  <1>7. FirstRefusal(checks) =
           IF ~p1 THEN "TypeError" ELSE IF ~p2 THEN "TENANT_ACCESS_DENIED" ELSE
           IF ~p3 THEN "TENANT_DISABLED" ELSE IF ~p4 THEN "USER_DISABLED" ELSE
           IF ~p5 THEN "TENANT_ACCESS_DENIED" ELSE "granted"
    BY <1>1, <1>5, <1>6
  <1> QED
    BY <1>2, <1>3, <1>4, <1>7

LEMMA SameTenantUserCode ==
    ASSUME NEW caller, NEW ref \in Reference, NEW directory
    PROVE  SameTenantUser(caller, ref, directory) =
              IF ~ref.present THEN "TENANT_ACCESS_DENIED"
              ELSE IF Blank \in {ref.tenant, ref.user} THEN "TypeError"
              ELSE IF caller # <<ref.tenant, ref.user>> THEN "TENANT_ACCESS_DENIED"
              ELSE MembershipCode(caller[1], caller[2], directory)
  <1> DEFINE p1 == ref.present
             p2 == Blank \notin {ref.tenant, ref.user}
             p3 == caller = <<ref.tenant, ref.user>>
             p4 == caller[1] \in directory.tenants
             p5 == caller[2] \in directory.users
             p6 == <<caller[1], caller[2]>> \in directory.members
             checks == << <<p1, "TENANT_ACCESS_DENIED">>, <<p2, "TypeError">>,
                          <<p3, "TENANT_ACCESS_DENIED">> >>
                       \o << <<p4, "TENANT_DISABLED">>, <<p5, "USER_DISABLED">>,
                             <<p6, "TENANT_ACCESS_DENIED">> >>
  <1>1. /\ p1 \in BOOLEAN /\ p2 \in BOOLEAN /\ p3 \in BOOLEAN
        /\ p4 \in BOOLEAN /\ p5 \in BOOLEAN /\ p6 \in BOOLEAN
    BY DEF Reference
  <1>2. SameTenantUser(caller, ref, directory) = FirstRefusal(checks)
    BY DEF SameTenantUser, MembershipChecks
  <1>3. MembershipCode(caller[1], caller[2], directory) =
           IF ~p4 THEN "TENANT_DISABLED" ELSE IF ~p5 THEN "USER_DISABLED"
           ELSE IF ~p6 THEN "TENANT_ACCESS_DENIED" ELSE "granted"
    BY DEF MembershipCode
  <1>4. /\ ~ref.present <=> ~p1
        /\ Blank \in {ref.tenant, ref.user} <=> ~p2
        /\ caller # <<ref.tenant, ref.user>> <=> ~p3
    OBVIOUS
  <1> HIDE DEF p1, p2, p3, p4, p5, p6
  <1>5. /\ DOMAIN checks = 1..6
        /\ checks[1] = <<p1, "TENANT_ACCESS_DENIED">>
        /\ checks[2] = <<p2, "TypeError">>
        /\ checks[3] = <<p3, "TENANT_ACCESS_DENIED">>
        /\ checks[4] = <<p4, "TENANT_DISABLED">>
        /\ checks[5] = <<p5, "USER_DISABLED">>
        /\ checks[6] = <<p6, "TENANT_ACCESS_DENIED">>
    OBVIOUS
  <1> HIDE DEF checks
  <1>6. FirstRefusal(checks) =
           IF ~checks[1][1] THEN checks[1][2] ELSE IF ~checks[2][1] THEN checks[2][2] ELSE
           IF ~checks[3][1] THEN checks[3][2] ELSE IF ~checks[4][1] THEN checks[4][2] ELSE
           IF ~checks[5][1] THEN checks[5][2] ELSE IF ~checks[6][1] THEN checks[6][2] ELSE
           "granted"
    BY <1>5, SixChecks
  <1>7. FirstRefusal(checks) =
           IF ~p1 THEN "TENANT_ACCESS_DENIED" ELSE IF ~p2 THEN "TypeError" ELSE
           IF ~p3 THEN "TENANT_ACCESS_DENIED" ELSE IF ~p4 THEN "TENANT_DISABLED" ELSE
           IF ~p5 THEN "USER_DISABLED" ELSE IF ~p6 THEN "TENANT_ACCESS_DENIED" ELSE
           "granted"
    BY <1>1, <1>5, <1>6
  <1> QED
    BY <1>2, <1>3, <1>4, <1>7

LEMMA AuthorizedReferenceCode ==
    ASSUME NEW caller, NEW ref \in Reference, NEW supported \in BOOLEAN, NEW directory
    PROVE  AuthorizedReference(caller, ref, supported, directory) =
              IF ~supported THEN "VALIDATION_FAILED"
              ELSE IF \/ ~ref.present \/ ~ref.id \/ Blank \in {ref.tenant, ref.user}
                      \/ caller # <<ref.tenant, ref.user>>
              THEN "TENANT_ACCESS_DENIED"
              ELSE MembershipCode(caller[1], caller[2], directory)
  <1> DEFINE p1 == supported
             p2 == ref.present /\ ref.id /\ Blank \notin {ref.tenant, ref.user}
             p3 == caller = <<ref.tenant, ref.user>>
             p4 == caller[1] \in directory.tenants
             p5 == caller[2] \in directory.users
             p6 == <<caller[1], caller[2]>> \in directory.members
             checks == << <<p1, "VALIDATION_FAILED">>, <<p2, "TENANT_ACCESS_DENIED">>,
                          <<p3, "TENANT_ACCESS_DENIED">> >>
                       \o << <<p4, "TENANT_DISABLED">>, <<p5, "USER_DISABLED">>,
                             <<p6, "TENANT_ACCESS_DENIED">> >>
  <1>1. /\ p1 \in BOOLEAN /\ p2 \in BOOLEAN /\ p3 \in BOOLEAN
        /\ p4 \in BOOLEAN /\ p5 \in BOOLEAN /\ p6 \in BOOLEAN
    OBVIOUS
  <1>2. AuthorizedReference(caller, ref, supported, directory) = FirstRefusal(checks)
    BY DEF AuthorizedReference, MembershipChecks
  <1>3. MembershipCode(caller[1], caller[2], directory) =
           IF ~p4 THEN "TENANT_DISABLED" ELSE IF ~p5 THEN "USER_DISABLED"
           ELSE IF ~p6 THEN "TENANT_ACCESS_DENIED" ELSE "granted"
    BY DEF MembershipCode
  <1>4. /\ ~supported <=> ~p1
        /\ ~ref.present \/ ~ref.id \/ Blank \in {ref.tenant, ref.user} <=> ~p2
        /\ caller # <<ref.tenant, ref.user>> <=> ~p3
    BY DEF Reference
  <1> HIDE DEF p1, p2, p3, p4, p5, p6
  <1>5. /\ DOMAIN checks = 1..6
        /\ checks[1] = <<p1, "VALIDATION_FAILED">>
        /\ checks[2] = <<p2, "TENANT_ACCESS_DENIED">>
        /\ checks[3] = <<p3, "TENANT_ACCESS_DENIED">>
        /\ checks[4] = <<p4, "TENANT_DISABLED">>
        /\ checks[5] = <<p5, "USER_DISABLED">>
        /\ checks[6] = <<p6, "TENANT_ACCESS_DENIED">>
    OBVIOUS
  <1> HIDE DEF checks
  <1>6. FirstRefusal(checks) =
           IF ~checks[1][1] THEN checks[1][2] ELSE IF ~checks[2][1] THEN checks[2][2] ELSE
           IF ~checks[3][1] THEN checks[3][2] ELSE IF ~checks[4][1] THEN checks[4][2] ELSE
           IF ~checks[5][1] THEN checks[5][2] ELSE IF ~checks[6][1] THEN checks[6][2] ELSE
           "granted"
    BY <1>5, SixChecks
  <1>7. FirstRefusal(checks) =
           IF ~p1 THEN "VALIDATION_FAILED" ELSE IF ~p2 THEN "TENANT_ACCESS_DENIED"
           ELSE IF ~p3 THEN "TENANT_ACCESS_DENIED" ELSE IF ~p4 THEN "TENANT_DISABLED"
           ELSE IF ~p5 THEN "USER_DISABLED" ELSE IF ~p6 THEN "TENANT_ACCESS_DENIED"
           ELSE "granted"
    BY <1>1, <1>5, <1>6
  <1> QED
    BY <1>2, <1>3, <1>4, <1>7

LEMMA DerivedCode ==
    ASSUME NEW session \in Session, NEW directory, NEW now \in Nat
    PROVE  DeriveIdentity(session, directory, now) =
              IF ~session.present THEN "AUTHENTICATION_REQUIRED"
              ELSE IF session.revoked \/ ~session.audience THEN "INVALID_AUTH_TOKEN"
              ELSE IF Blank \in {session.expiresAt, session.tenant, session.user}
              THEN "AUTH_TOKEN_MALFORMED"
              ELSE IF ~(now < session.expiresAt) THEN "AUTH_TOKEN_EXPIRED"
              ELSE MembershipCode(session.tenant, session.user, directory)
  <1> DEFINE p1 == session.present
             p2 == ~session.revoked
             p3 == session.audience
             p4 == Blank \notin {session.expiresAt, session.tenant, session.user}
             p5 == p4 => now < session.expiresAt
             p6 == session.tenant \in directory.tenants
             p7 == session.user \in directory.users
             p8 == <<session.tenant, session.user>> \in directory.members
             checks == << <<p1, "AUTHENTICATION_REQUIRED">>, <<p2, "INVALID_AUTH_TOKEN">>,
                          <<p3, "INVALID_AUTH_TOKEN">>, <<p4, "AUTH_TOKEN_MALFORMED">>,
                          <<p5, "AUTH_TOKEN_EXPIRED">> >>
                       \o << <<p6, "TENANT_DISABLED">>, <<p7, "USER_DISABLED">>,
                             <<p8, "TENANT_ACCESS_DENIED">> >>
  <1>1. /\ p1 \in BOOLEAN /\ p2 \in BOOLEAN /\ p3 \in BOOLEAN /\ p4 \in BOOLEAN
        /\ p5 \in BOOLEAN /\ p6 \in BOOLEAN /\ p7 \in BOOLEAN /\ p8 \in BOOLEAN
    BY DEF Session
  <1>2. DeriveIdentity(session, directory, now) = FirstRefusal(checks)
    BY DEF DeriveIdentity, MembershipChecks
  <1>3. MembershipCode(session.tenant, session.user, directory) =
           IF ~p6 THEN "TENANT_DISABLED" ELSE IF ~p7 THEN "USER_DISABLED"
           ELSE IF ~p8 THEN "TENANT_ACCESS_DENIED" ELSE "granted"
    BY DEF MembershipCode
  <1>4. /\ ~session.present <=> ~p1
        /\ session.revoked <=> ~p2
        /\ ~session.audience <=> ~p3
        /\ Blank \in {session.expiresAt, session.tenant, session.user} <=> ~p4
        /\ p4 => (~(now < session.expiresAt) <=> ~p5)
    BY DEF Session
  <1> HIDE DEF p1, p2, p3, p4, p5, p6, p7, p8
  <1>5. /\ DOMAIN checks = 1..8
        /\ checks[1] = <<p1, "AUTHENTICATION_REQUIRED">>
        /\ checks[2] = <<p2, "INVALID_AUTH_TOKEN">>
        /\ checks[3] = <<p3, "INVALID_AUTH_TOKEN">>
        /\ checks[4] = <<p4, "AUTH_TOKEN_MALFORMED">>
        /\ checks[5] = <<p5, "AUTH_TOKEN_EXPIRED">>
        /\ checks[6] = <<p6, "TENANT_DISABLED">>
        /\ checks[7] = <<p7, "USER_DISABLED">>
        /\ checks[8] = <<p8, "TENANT_ACCESS_DENIED">>
    OBVIOUS
  <1> HIDE DEF checks
  <1>6. FirstRefusal(checks) =
           IF ~checks[1][1] THEN checks[1][2] ELSE IF ~checks[2][1] THEN checks[2][2] ELSE
           IF ~checks[3][1] THEN checks[3][2] ELSE IF ~checks[4][1] THEN checks[4][2] ELSE
           IF ~checks[5][1] THEN checks[5][2] ELSE IF ~checks[6][1] THEN checks[6][2] ELSE
           IF ~checks[7][1] THEN checks[7][2] ELSE IF ~checks[8][1] THEN checks[8][2] ELSE
           "granted"
    BY <1>5, EightChecks
  <1>7. FirstRefusal(checks) =
           IF ~p1 THEN "AUTHENTICATION_REQUIRED" ELSE
           IF ~p2 THEN "INVALID_AUTH_TOKEN" ELSE IF ~p3 THEN "INVALID_AUTH_TOKEN"
           ELSE IF ~p4 THEN "AUTH_TOKEN_MALFORMED" ELSE
           IF ~p5 THEN "AUTH_TOKEN_EXPIRED" ELSE IF ~p6 THEN "TENANT_DISABLED" ELSE
           IF ~p7 THEN "USER_DISABLED" ELSE IF ~p8 THEN "TENANT_ACCESS_DENIED" ELSE
           "granted"
    BY <1>1, <1>5, <1>6
  <1> QED
    BY <1>2, <1>3, <1>4, <1>7

-----------------------------------------------------------------------------
(* The properties, for every set of inputs.                                *)

\* Two connections whose keys are equal, put for an identifier that may hold the
\* separator.
LEMMA KeyCollisions ==
    ASSUME NEW c \in Connections, NEW d \in Connections
    PROVE  /\ ItemKey(c) = ItemKey(d) => c = d \/ Holds(c.user, Hash) \/ Holds(d.user, Hash)
           /\ TokenKey(c) = TokenKey(d) =>
                 \/ c = d
                 \/ Holds(c.tenant, Colon) \/ Holds(c.user, Colon)
                 \/ Holds(d.tenant, Colon) \/ Holds(d.user, Colon)
           /\ MembershipKey(c.tenant, c.user) = MembershipKey(d.tenant, d.user) =>
                 \/ c.tenant = d.tenant /\ c.user = d.user
                 \/ Holds(c.tenant, Colon) \/ Holds(d.tenant, Colon)
  <1>1. /\ ~Holds(c.user, Hash) => Without(c.user, Hash)
        /\ ~Holds(c.user, Colon) => Without(c.user, Colon)
        /\ ~Holds(c.tenant, Colon) => Without(c.tenant, Colon)
    BY ConnectionParts
  <1>2. /\ ~Holds(d.user, Hash) => Without(d.user, Hash)
        /\ ~Holds(d.user, Colon) => Without(d.user, Colon)
        /\ ~Holds(d.tenant, Colon) => Without(d.tenant, Colon)
    BY ConnectionParts
  <1>3. ItemKey(c) = ItemKey(d) => c = d \/ Holds(c.user, Hash) \/ Holds(d.user, Hash)
    <2> SUFFICES ASSUME ItemKey(c) = ItemKey(d), ~Holds(c.user, Hash), ~Holds(d.user, Hash)
                 PROVE  c = d
      OBVIOUS
    <2>1. Without(c.user, Hash) /\ Without(d.user, Hash)
      BY <1>1, <1>2
    <2> QED
      BY <2>1, ItemKeyReads
  <1>4. TokenKey(c) = TokenKey(d) =>
           \/ c = d
           \/ Holds(c.tenant, Colon) \/ Holds(c.user, Colon)
           \/ Holds(d.tenant, Colon) \/ Holds(d.user, Colon)
    <2> SUFFICES ASSUME TokenKey(c) = TokenKey(d),
                        ~Holds(c.tenant, Colon), ~Holds(c.user, Colon),
                        ~Holds(d.tenant, Colon), ~Holds(d.user, Colon)
                 PROVE  c = d
      OBVIOUS
    <2>1. /\ Without(c.tenant, Colon) /\ Without(c.user, Colon)
          /\ Without(d.tenant, Colon) /\ Without(d.user, Colon)
      BY <1>1, <1>2
    <2> QED
      BY <2>1, TokenKeyReads
  <1>5. MembershipKey(c.tenant, c.user) = MembershipKey(d.tenant, d.user) =>
           \/ c.tenant = d.tenant /\ c.user = d.user
           \/ Holds(c.tenant, Colon) \/ Holds(d.tenant, Colon)
    <2> SUFFICES ASSUME MembershipKey(c.tenant, c.user) = MembershipKey(d.tenant, d.user),
                        ~Holds(c.tenant, Colon), ~Holds(d.tenant, Colon)
                 PROVE  c.tenant = d.tenant /\ c.user = d.user
      OBVIOUS
    <2>1. Without(c.tenant, Colon) /\ Without(d.tenant, Colon)
      BY <1>1, <1>2
    <2> QED
      BY <2>1, MembershipKeyReads
  <1> QED
    BY <1>3, <1>4, <1>5

\* _sort_key, _token_key and _membership_key give different connections, or
\* memberships, different keys, for any alphabet and identifiers of any length,
\* except where a tenant or user id holds the separator of the key.
THEOREM KeysTellApart == Spec => []KeysDistinct
  <1>1. InputInv => KeysDistinct
    <2> SUFFICES ASSUME InputInv, InputIs("keys")
                 PROVE  KeysDistinct
      BY DEF KeysDistinct
    <2>1. input.c \in Connections /\ input.d \in Connections
      BY DEF InputInv, InputIs, Inputs
    <2> DEFINE c == input.c
               d == input.d
    <2> HIDE DEF c, d
    <2>2. c \in Connections /\ d \in Connections
      BY <2>1 DEF c, d
    <2>3. /\ ItemKey(c) = ItemKey(d) => c = d \/ Holds(c.user, Hash) \/ Holds(d.user, Hash)
          /\ TokenKey(c) = TokenKey(d) =>
                 \/ c = d
                 \/ Holds(c.tenant, Colon) \/ Holds(c.user, Colon)
                 \/ Holds(d.tenant, Colon) \/ Holds(d.user, Colon)
          /\ MembershipKey(c.tenant, c.user) = MembershipKey(d.tenant, d.user) =>
                 \/ c.tenant = d.tenant /\ c.user = d.user
                 \/ Holds(c.tenant, Colon) \/ Holds(d.tenant, Colon)
      BY <2>2, KeyCollisions
    <2>4. Holds(c.tenant, Colon) \/ Holds(c.user, Colon) \/ Holds(d.tenant, Colon) \/ Holds(d.user, Colon)
             => \E id \in {c.tenant, c.user, d.tenant, d.user} : Holds(id, Colon)
      OBVIOUS
    <2> QED
      BY <2>3, <2>4 DEF KeysDistinct, c, d
  <1> QED
    BY <1>1, InputIsOffered, PTL

\* list_for_user of the table, by the prefix of a key, lists what the
\* in-memory repository finds by comparing the fields, and nothing else but
\* where the id of a user holds the separator.
THEOREM ListsAgree == Spec => []RepositoriesAgree
  <1>1. InputInv => RepositoriesAgree
    <2> SUFFICES ASSUME InputInv, InputIs("keys")
                 PROVE  RepositoriesAgree
      BY DEF RepositoriesAgree
    <2> DEFINE c == input.c
               Found(x) == IsPrefix(c.user \o <<Hash>> \o Provider, SortKey(x.user, x.account))
    <2>1. c \in Connections /\ input.d \in Connections
      BY DEF InputInv, InputIs, Inputs
    <2>2. ASSUME NEW x \in {c, input.d}
          PROVE  /\ x.user = c.user => Found(x)
                 /\ Found(x) => x.user = c.user \/ Holds(c.user, Hash) \/ Holds(x.user, Hash)
      <3>1. x \in Connections
        BY <2>1
      <3>2. /\ Without(c.user, Hash) <=> ~Holds(c.user, Hash)
            /\ Without(x.user, Hash) <=> ~Holds(x.user, Hash)
        BY <2>1, <3>1, ConnectionParts, Zenon
      <3>3. /\ x.user = c.user => Found(x)
            /\ Found(x) /\ Without(c.user, Hash) /\ Without(x.user, Hash) => x.user = c.user
        BY <2>1, <3>1, QueryFindsTheUser, Zenon
      <3> QED
        BY <3>2, <3>3, Zenon
    <2> QED
      BY <2>2 DEF RepositoriesAgree, Listed, ListedInMemory
  <1> QED
    BY <1>1, InputIsOffered, PTL

\* Setup status reports of a session what a protected route would answer, for
\* every session but a malformed one, which is a 400 there and a 401 here, and
\* one without an id, which the route serves.
THEOREM SetupReportsRoute == Spec => []SetupReportsRefusal
  <1>1. InputInv => SetupReportsRefusal
    <2> SUFFICES ASSUME InputInv, InputIs("session")
                 PROVE  SetupReportsRefusal
      BY DEF SetupReportsRefusal
    <2> DEFINE session == input.session
               derived == DeriveIdentity(session, input.directory, input.now)
    <2>1. session \in Session /\ input.now \in Nat
      BY InputsAssumption DEF InputInv, InputIs, Inputs
    <2>2. session.sessionId \in BOOLEAN
      BY <2>1 DEF Session
    <2>3. derived \in Unauthenticated \cup Denied \cup {"granted"}
      BY <2>1, DerivedCode DEF MembershipCode, Unauthenticated, Denied
    <2>4. SetupSession(session, input.directory, input.now) =
             LET code == IF derived = "granted" /\ ~session.sessionId
                         THEN "AUTH_TOKEN_MALFORMED" ELSE derived
             IN IF code = "granted" THEN [status |-> "authenticated", httpStatus |-> 200]
                ELSE Contract(code)
      BY DEF SetupSession
    <2>5. /\ \A code \in Unauthenticated : StatusOf[code] = 401
          /\ \A code \in Denied : StatusOf[code] = 403
          /\ StatusOf["granted"] = 200
      BY DEF StatusOf, Unauthenticated, Denied
    <2> HIDE DEF derived, session
    <2> QED
      BY <2>2, <2>3, <2>4, <2>5
      DEF SetupReportsRefusal, Contract, Unauthenticated, Denied, derived, session
  <1> QED
    BY <1>1, InputIsOffered, PTL

\* assert_authorized_reference, assert_same_tenant_user and assert_same_tenant
\* nest, of every reference and in every state of the directory.
THEOREM ChecksNest == Spec => []ReferenceChecksNest
  <1>1. InputInv => ReferenceChecksNest
    <2> SUFFICES ASSUME InputInv, InputIs("reference")
                 PROVE  ReferenceChecksNest
      BY DEF ReferenceChecksNest
    <2> DEFINE caller == <<input.session.tenant, input.session.user>>
               ref == input.ref
    <2> DEFINE known == input.type = "known"
    <2>1. ref \in Reference /\ known \in BOOLEAN
      BY InputsAssumption DEF InputInv, InputIs, Inputs
    <2>2. caller = <<caller[1], caller[2]>>
      OBVIOUS
    <2> SUFFICES ASSUME Blank \notin {caller[1], caller[2]}
                 PROVE  LET strict == AuthorizedReference(caller, ref, known, input.directory)
                            sameUser == SameTenantUser(caller, ref, input.directory)
                            sameTenant == SameTenant(caller, ref.tenant, input.directory)
                        IN /\ strict = "granted" => sameUser = "granted"
                           /\ sameUser = "granted" => sameTenant = "granted"
                           /\ (sameUser = "granted" /\ ref.id /\ known)
                                 => strict = "granted"
      BY DEF ReferenceChecksNest
    <2> HIDE DEF caller, ref, known
    <2> QED
      BY <2>1, <2>2, AuthorizedReferenceCode, SameTenantUserCode, SameTenantCode DEF Reference
  <1> QED
    BY <1>1, InputIsOffered, PTL

\* The route authorizer serves a reference it asked for exactly when it is there,
\* complete and the caller's own, and refuses every other with one code.
THEOREM ReferencesTellNothing == Spec => []ReferencesRefusedAlike
  <1>1. InputInv => ReferencesRefusedAlike
    <2> SUFFICES ASSUME InputInv, InputIs("reference")
                 PROVE  ReferencesRefusedAlike
      BY DEF ReferencesRefusedAlike
    <2> DEFINE session == input.session
               ref == input.ref
               type == input.type
               derived == DeriveIdentity(session, input.directory, 0)
               caller == <<session.tenant, session.user>>
               membership == MembershipCode(session.tenant, session.user, input.directory)
               complete == ref.present /\ ref.id /\ Blank \notin {ref.tenant, ref.user}
               own == ref.present /\ ref.id /\ <<ref.tenant, ref.user>> = caller
               answer == Authorize(session, ref, type, input.directory, 0)
    <2>1. session \in Session /\ ref \in Reference /\ type \in ReferenceTypes
      BY InputsAssumption DEF InputInv, InputIs, Inputs
    <2>2. derived = "granted" =>
             membership = "granted" /\ Blank \notin {session.tenant, session.user}
      BY <2>1, DerivedCode
    <2>3. answer = IF derived # "granted" THEN derived
                   ELSE IF type = "none" THEN "granted"
                   ELSE AuthorizedReference(caller, ref, type = "known", input.directory)
      BY DEF Authorize
    <2>4. AuthorizedReference(caller, ref, type = "known", input.directory) =
             IF type # "known" THEN "VALIDATION_FAILED"
             ELSE IF ~complete \/ caller # <<ref.tenant, ref.user>> THEN "TENANT_ACCESS_DENIED"
             ELSE membership
      <3> DEFINE known == type = "known"
                 who == caller
      <3>1. known \in BOOLEAN /\ who[1] = session.tenant /\ who[2] = session.user
        OBVIOUS
      <3> HIDE DEF known, who, ref
      <3>2. AuthorizedReference(who, ref, known, input.directory) =
               IF ~known THEN "VALIDATION_FAILED"
               ELSE IF \/ ~ref.present \/ ~ref.id \/ Blank \in {ref.tenant, ref.user}
                       \/ who # <<ref.tenant, ref.user>>
               THEN "TENANT_ACCESS_DENIED"
               ELSE MembershipCode(who[1], who[2], input.directory)
        BY <2>1, <3>1, AuthorizedReferenceCode
      <3> QED
        BY <3>1, <3>2 DEF known, who
    <2>5. derived = "granted" => (own <=> complete /\ caller = <<ref.tenant, ref.user>>)
      BY <2>2
    <2>6. type \in {"none", "known", "unknown"}
      BY <2>1 DEF ReferenceTypes
    <2> HIDE DEF derived, membership, complete, own, caller, session, ref, type, answer
    <2>7. answer = IF derived # "granted" THEN derived
                   ELSE IF type = "unknown" THEN "VALIDATION_FAILED"
                   ELSE IF type = "known" => own THEN "granted"
                   ELSE "TENANT_ACCESS_DENIED"
      BY <2>2, <2>3, <2>4, <2>5, <2>6
    <2> QED
      BY <2>7
         DEF ReferencesRefusedAlike, derived, own, caller, session, ref, type, answer
  <1> QED
    BY <1>1, InputIsOffered, PTL

\* The result of a flow arrives as the query of an allowed target, unless the
\* origin was configured with a delimiter and at most slashes behind it.
THEOREM ResultsArrive == Spec => []TargetsCarryResult
  <1> DEFINE Open(url) == {url.query, url.fragment} \cap {"bare", "slashes"} # {}
             Plain(url) == url.query = "absent" /\ url.fragment = "absent"
  <1>1. ASSUME NEW url \in Url, IsValidUrl(url) PROVE Open(url) \/ Plain(url)
    <2>1. url.query \in Suffix /\ url.fragment \in Suffix
      BY DEF Url
    <2>2. CASE url.fragment # "absent"
      BY <1>1, <2>1, <2>2 DEF IsValidUrl, Strip, Suffix, Url
    <2>3. CASE url.fragment = "absent" /\ url.query # "absent"
      BY <1>1, <2>1, <2>3 DEF IsValidUrl, Strip, Suffix, Url
    <2> QED
      BY <2>2, <2>3
  <1>2. ASSUME NEW url \in Url PROVE Plain(Strip(url)) <=> Plain(url)
    <2>1. CASE url.fragment # "absent"
      <3>1. Strip(url).fragment # "absent"
        BY <2>1 DEF Strip, Url
      <3> QED
        BY <2>1, <3>1
    <2>2. CASE url.fragment = "absent" /\ url.query # "absent"
      <3>1. Strip(url).query # "absent"
        BY <2>2 DEF Strip, Url
      <3> QED
        BY <2>2, <3>1
    <2>3. CASE Plain(url)
      BY <2>3 DEF Strip, Url
    <2> QED
      BY <2>1, <2>2, <2>3
  <1>3. InputInv => TargetsCarryResult
    <2> SUFFICES ASSUME InputInv, InputIs("urls"), AllowsTarget({input.url}, input.other)
                 PROVE  Open(input.url) \/ LocationCarriesResult(input.other)
      BY DEF TargetsCarryResult
    <2>1. input.url \in Url /\ input.other \in Url
      BY InputsAssumption DEF InputInv, InputIs, Inputs
    <2>2. IsValidUrl(input.url) /\ Strip(input.other) = Strip(input.url)
      BY DEF AllowsTarget
    <2> HIDE DEF Open, Plain
    <2>3. Open(input.url) \/ Plain(input.other)
      BY <1>1, <1>2, <2>1, <2>2
    <2> QED
      BY <2>3 DEF LocationCarriesResult, Plain
  <1> QED
    BY <1>3, InputIsOffered, PTL

\* A configuration is accepted or refused whatever slashes end its URLs, for
\* paths of any length.
THEOREM SlashesMakeNoDifference == Spec => []TrailingSlashesIgnored
  <1> DEFINE Bare(url) == [url EXCEPT !.slashes = 0]
             Ended(url) == url.query = "absent" /\ url.fragment = "absent"
  <1>1. ASSUME NEW url \in Url
        PROVE  /\ Bare(url) \in Url /\ Ended(Bare(url)) = Ended(url)
               /\ IsValidUrl(Bare(url)) = IsValidUrl(url)
               /\ Ended(url) => Strip(url) = Bare(url) /\ Strip(Bare(url)) = Bare(url)
    BY DEF Url, IsValidUrl, Strip
  <1>2. ASSUME NEW api \in Url, NEW callback \in Url, AcceptsCallback(api, callback)
        PROVE  Ended(api) /\ Ended(callback) /\ Strip(callback).path = Append(api.path, "callback")
    <2>1. /\ IsValidUrl(api) /\ IsValidUrl(callback)
          /\ Strip(callback) = ExpectedCallback(api)
      BY <1>2 DEF AcceptsCallback
    <2>2. Ended(api)
      BY <2>1 DEF ExpectedCallback, Strip, IsValidUrl, Url, Suffix
    <2>3. ExpectedCallback(api) = [Bare(api) EXCEPT !.path = Append(@, "callback")]
      <3>1. Strip(api) = Bare(api) /\ Bare(api) \in Url /\ Ended(Bare(api))
        BY <1>1, <2>2
      <3> HIDE DEF Bare
      <3> QED
        BY <3>1 DEF ExpectedCallback
    <2>4. /\ ExpectedCallback(api).query = "absent" /\ ExpectedCallback(api).fragment = "absent"
          /\ ExpectedCallback(api).path = Append(api.path, "callback")
      BY <2>2, <2>3 DEF Url
    <2> QED
      BY <2>1, <2>2, <2>4 DEF Strip, Url
  <1>3. ASSUME NEW api \in Url, NEW callback \in Url, Ended(api), Ended(callback)
        PROVE  AcceptsCallback(api, callback) = AcceptsCallback(Bare(api), Bare(callback))
    <2>1. /\ Strip(api) = Bare(api) /\ Strip(Bare(api)) = Bare(api)
          /\ Strip(callback) = Bare(callback) /\ Strip(Bare(callback)) = Bare(callback)
          /\ IsValidUrl(Bare(api)) = IsValidUrl(api)
          /\ IsValidUrl(Bare(callback)) = IsValidUrl(callback)
      BY <1>1, <1>3
    <2> HIDE DEF Bare
    <2> QED
      BY <2>1 DEF AcceptsCallback, ExpectedCallback
  <1>4. InputInv => TrailingSlashesIgnored
    <2> SUFFICES ASSUME InputInv, InputIs("urls")
                 PROVE  TrailingSlashesIgnored
      BY DEF TrailingSlashesIgnored
    <2>1. input.url \in Url /\ input.other \in Url
      BY InputsAssumption DEF InputInv, InputIs, Inputs
    <2>2. AcceptsCallback(input.url, input.other)
             = AcceptsCallback(Bare(input.url), Bare(input.other))
      <3>1. CASE Ended(input.url) /\ Ended(input.other)
        BY <1>3, <2>1, <3>1
      <3>2. CASE ~(Ended(input.url) /\ Ended(input.other))
        <4>1. /\ Bare(input.url) \in Url /\ Bare(input.other) \in Url
              /\ Ended(Bare(input.url)) = Ended(input.url)
              /\ Ended(Bare(input.other)) = Ended(input.other)
          BY <1>1, <2>1
        <4> HIDE DEF Bare, Ended
        <4>2. ~AcceptsCallback(input.url, input.other)
          BY <1>2, <2>1, <3>2
        <4>3. ~AcceptsCallback(Bare(input.url), Bare(input.other))
          BY <1>2, <3>2, <4>1
        <4> QED
          BY <4>2, <4>3 DEF AcceptsCallback
      <3> QED
        BY <3>1, <3>2
    <2> QED
      BY <1>2, <2>1, <2>2 DEF TrailingSlashesIgnored
  <1> QED
    BY <1>4, InputIsOffered, PTL

=============================================================================
