------------------------------ MODULE TokenKeys ------------------------------
(***************************************************************************)
(* The keys under which records are kept: identifiers joined by separators *)
(* in the DynamoDB table (aws_adapters.py), in the in-memory repository of *)
(* the tests (oauth_tokens.py) and in the tenant directory (tenancy.py).   *)
(* OAuthTokens and ProductSession take these keys for pairs of             *)
(* identifiers; here identifiers are sequences of characters.              *)
(***************************************************************************)
EXTENDS Sequences, SequencesExt

CONSTANTS
    Character, \* what identifiers are made of
    Hash,      \* the separator of the sort key
    Colon,     \* the separator of the keys in memory
    Provider   \* the provider's name, "google"

ASSUME SeparatorAssumption ==
    /\ {Hash, Colon} \subseteq Character /\ Provider \in Seq(Character)
    /\ Hash # Colon /\ \A i \in DOMAIN Provider : Provider[i] \notin {Hash, Colon}

\* An identifier with the separator in it.  Nothing keeps the configured tenant
\* and user ids from it, and Google chooses the account ids.
Holds(id, separator) == \E i \in DOMAIN id : id[i] = separator

\* Fault: nothing separates the parts.
UnseparatedSortKey(user, account) == user \o Provider \o account

\* _sort_key
SortKey(user, account) == user \o <<Hash>> \o Provider \o <<Hash>> \o account

\* The key of an item: its partition and its place there.
ItemKey(c) == <<c.tenant, SortKey(c.user, c.account)>>

\* _token_key
TokenKey(c) == c.tenant \o <<Colon>> \o c.user \o <<Colon>> \o Provider \o <<Colon>> \o c.account

\* _membership_key
MembershipKey(tenant, user) == tenant \o <<Colon>> \o user

\* Fault: the prefix of the query is the user alone.
ListedByUserPrefix(table, tenant, user) ==
    {c \in table : c.tenant = tenant /\ IsPrefix(user, SortKey(c.user, c.account))}

\* list_for_user of the table: begins_with the user and the provider, without a
\* separator behind.
Listed(table, tenant, user) ==
    {c \in table : /\ c.tenant = tenant
                   /\ IsPrefix(user \o <<Hash>> \o Provider, SortKey(c.user, c.account))}

\* list_for_user of the in-memory repository, which compares the fields.
ListedInMemory(table, tenant, user) == {c \in table : c.tenant = tenant /\ c.user = user}

=============================================================================
