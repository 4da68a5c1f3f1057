-------------------------- MODULE CredentialVault --------------------------
(***************************************************************************)
(* The OAuth grant shared by several accounts, and the transactions that   *)
(* write it: the vault's renewal (internal/credentials/vault_refresh.go),  *)
(* the authorization callback (internal/services/channel_authorization.go),*)
(* the disconnection of one account (internal/repository/                  *)
(* platform_account_disconnect.go), its permanent deletion                 *)
(* (platform_account_delete.go), the disconnection of the whole grant      *)
(* (oauth_connection_disconnect.go), and the writers of account status     *)
(* outside them (platform_account_crud.go, platform_account_reauth.go,     *)
(* snapshot_repo.go).  It is one Google grant: an account may be linked to *)
(* it, to another grant, or to none.  Of the oauth_connections row only its *)
(* existence is kept: none of these transactions reads its status.         *)
(*                                                                         *)
(* A transaction locks one row (or the grant's advisory lock) per step, in *)
(* the order of its statements, and its writes appear when it commits: the *)
(* rows it has written are locked until then, so nobody sees them earlier. *)
(* PostgreSQL ends a circle of waits by aborting one of its transactions.  *)
(*                                                                         *)
(* A refresh token is the number of its issue.  valid is the provider's    *)
(* side: the refresh tokens it still accepts.  A rotating answer replaces  *)
(* the token it was asked with, an answer without one leaves it.  Whether   *)
(* the access token is in its refresh window is up to the clock, at every  *)
(* look at it (tokenFreshForStored).                                       *)
(***************************************************************************)
EXTENDS Naturals, FiniteSets

CONSTANTS
  Accounts,       \* the platform_accounts rows that may share the grant
  Txs,            \* requests and workers, each with a database connection
  Nobody,         \* no holder of a lock
  Ops,            \* the transactions that may start
  Faults,         \* the failures that may happen
  MaxTokens       \* bound: refresh tokens the provider issues

ASSUME VaultAssumption ==
  /\ MaxTokens \in Nat \ {0}
  /\ Nobody \notin Txs /\ Nobody \notin Accounts
  /\ Ops \subseteq {"renew", "authorize", "disconnect", "delete", "revoke", "status", "mark"}
  /\ Faults \subseteq {"provider", "answer", "save", "timeout", "remote"}
  /\ {"grant", "tokens", "advisory"} \cap Accounts = {}

VARIABLES
  valid,          \* provider: the refresh tokens it accepts
  issued,         \* provider: refresh tokens issued so far
  spoiled,        \* history: tokens revoked, or spent by a renewal that failed
  token,          \* the tokens row: [gen, there], or NoToken
  grant,          \* the oauth_connections row is there
  acct,           \* platform_accounts.status
  linked,         \* the accounts whose oauth_connection_id is this grant
  slipped,        \* history: an account left the grant without a disconnection
  lock,           \* who holds each row, and the advisory lock
  tx              \* what each transaction is doing

vars == <<valid, issued, spoiled, token, grant, acct, linked, slipped, lock, tx>>

Rows == Accounts \cup {"grant", "tokens", "advisory"}
Gens == 0..MaxTokens          \* 0: a row without a refresh token
NoToken == [gen |-> 0, there |-> FALSE]
Token(g) == [gen |-> g, there |-> TRUE]
TokenRows == [gen : Gens, there : BOOLEAN]

Dead == {"pending_authorization", "disconnected", "deleted"}
AccountStatus == Dead \cup {"active", "reauth_required"}
Steps == {"idle",
          "r_account", "r_advisory", "r_read", "r_ask", "r_tokens", "r_grant",
          "r_invalid", "r_siblings",
          "a_grant", "a_tokens", "a_account", "m_account",
          "d_account", "d_advisory", "d_count", "d_leave", "d_revoke", "d_grant", "d_tokens",
          "x_tokens", "x_grant", "x_links",
          "g_grant", "g_accounts", "g_revoke", "g_tokens",
          "w_account"}

\* set: the account status the transaction will write; here: the handler read,
\* before any lock, that the account is linked to this grant.
Idle == [pc |-> "idle", acct |-> Nobody, saw |-> 0, got |-> 0, set |-> "active", here |-> FALSE]

\* platform_accounts.oauth_connection_id names this grant.
Linked(a) == a \in linked

\* The grant still serves this account.
Live(a) == Linked(a) /\ acct[a] \notin Dead

TypeOK ==
  /\ issued \in Gens
  /\ valid \subseteq 1..issued
  /\ spoiled \subseteq 1..issued
  /\ token \in TokenRows
  /\ grant \in BOOLEAN
  /\ acct \in [Accounts -> AccountStatus]
  /\ linked \subseteq Accounts
  /\ slipped \in BOOLEAN
  /\ lock \in [Rows -> Txs \cup {Nobody}]
  /\ tx \in [Txs -> [pc : Steps, acct : Accounts \cup {Nobody}, saw : Gens, got : Gens,
                      set : AccountStatus, here : BOOLEAN]]

\* One account is authorized, the others have only been imported.
Init ==
  /\ issued = 1 /\ valid = {1} /\ spoiled = {}
  /\ token = Token(1)
  /\ grant = TRUE
  /\ acct \in [Accounts -> {"active", "pending_authorization"}]
  /\ \E a \in Accounts : acct[a] = "active"
  /\ linked = {a \in Accounts : acct[a] = "active"}
  /\ slipped = FALSE
  /\ lock = [r \in Rows |-> Nobody]
  /\ tx = [t \in Txs |-> Idle]

Held(t) == {r \in Rows : lock[r] = t}
Released(t) == [r \in Rows |-> IF lock[r] = t THEN Nobody ELSE lock[r]]
At(t, step) == tx[t].pc = step
Go(t, step) == tx' = [tx EXCEPT ![t].pc = step]
End(t) == tx' = [tx EXCEPT ![t] = Idle]

\* A statement that needs row r waits until nobody else holds it.
Take(t, r) ==
  /\ lock[r] \in {Nobody, t}
  /\ lock' = [lock EXCEPT ![r] = t]

Commit(t) == lock' = Released(t) /\ End(t)

Starts(t, step, a) ==
  tx' = [tx EXCEPT ![t] = [Idle EXCEPT !.pc = step, !.acct = a]]

\* What a rollback loses: the refresh token the provider has already replaced.
Spent(t) ==
  IF tx[t].pc \in {"r_tokens", "r_grant"} /\ tx[t].got # tx[t].saw
  THEN {tx[t].saw} ELSE {}

Rollback(t) ==
  /\ lock' = Released(t)
  /\ spoiled' = spoiled \cup Spent(t)
  /\ UNCHANGED <<valid, issued, token, grant, acct, linked, slipped>>

-----------------------------------------------------------------------------
\* The rows a transaction's next statement locks.  An UPDATE or a SELECT FOR
\* UPDATE of many rows takes them one at a time, in an order of its own.
Wanted(t) ==
  CASE tx[t].pc \in {"r_account", "a_account", "m_account", "d_account", "w_account"} -> {tx[t].acct}
    [] tx[t].pc \in {"r_advisory", "d_advisory"} -> {"advisory"}
    [] tx[t].pc \in {"r_tokens", "a_tokens", "d_tokens", "x_tokens", "g_tokens"} -> {"tokens"}
    [] tx[t].pc \in {"r_grant", "r_invalid", "a_grant", "d_grant", "x_grant",
                     "g_grant"} -> {"grant"}
    [] tx[t].pc = "r_siblings" -> {a \in linked : acct[a] # "disconnected"}
    [] tx[t].pc \in {"g_accounts", "x_links"} -> linked
    [] OTHER -> {}

Missing(t) == Wanted(t) \ Held(t)

\* t waits for u: all it still needs is held, some of it by u.
WaitsFor(t, u) ==
  /\ \A r \in Missing(t) : lock[r] # Nobody
  /\ \E r \in Missing(t) : lock[r] = u

WaitCycle(C) == C # {} /\ \A t \in C : \E u \in C : WaitsFor(t, u)

-----------------------------------------------------------------------------
(* Renewal *)

\* renew: the token read before any lock is missing or about to expire, and no
\* other request of this process is renewing the grant.
Renew(t, a) ==
  /\ "renew" \in Ops
  /\ At(t, "idle") /\ Linked(a)
  /\ Starts(t, "r_account", a)
  /\ UNCHANGED <<valid, issued, spoiled, token, grant, acct, linked, slipped, lock>>

\* renewUnderGrantLock: SELECT oauth_connection_id ... FOR UPDATE.
LockAccount(t) ==
  /\ At(t, "r_account") /\ Linked(tx[t].acct)
  /\ Take(t, tx[t].acct) /\ Go(t, "r_advisory")
  /\ UNCHANGED <<valid, issued, spoiled, token, grant, acct, linked, slipped>>

\* "OAuth connection changed during refresh", or there is none any more.
ConnectionChanged(t) ==
  /\ At(t, "r_account") /\ ~Linked(tx[t].acct)
  /\ lock[tx[t].acct] = Nobody
  /\ Rollback(t) /\ End(t)

\* A renewal that relied on the row lock of its own account.
LockGrantNone(t) ==
  /\ At(t, "r_advisory") /\ Go(t, "r_read")
  /\ UNCHANGED <<valid, issued, spoiled, token, grant, acct, linked, slipped, lock>>

\* pg_advisory_xact_lock(oauth_connection_id)
LockGrant(t) ==
  /\ At(t, "r_advisory") /\ Take(t, "advisory") /\ Go(t, "r_read")
  /\ UNCHANGED <<valid, issued, spoiled, token, grant, acct, linked, slipped>>

\* The row is read again inside the lock: it may be fresh by now, renewed by
\* another process (nothing to do), or gone, or hold no refresh token (error).
\* In all of these the transaction ends with nothing written.
FindInsideLock(t) ==
  /\ At(t, "r_read")
  /\ UNCHANGED <<valid, issued, spoiled, token, grant, acct, linked, slipped>>
  /\ \/ Commit(t)
     \/ /\ token.there /\ token.gen # 0
        /\ tx' = [tx EXCEPT ![t].pc = "r_ask", ![t].saw = token.gen]
        /\ UNCHANGED lock

\* refresher: the provider accepts the refresh token, and may replace it.  When
\* it does not, prepareTokenForOAuthConnection keeps the stored one.
Refreshed(t) ==
  /\ At(t, "r_ask") /\ tx[t].saw \in valid
  /\ \/ /\ tx' = [tx EXCEPT ![t].pc = "r_tokens", ![t].got = tx[t].saw]
        /\ UNCHANGED <<valid, issued>>
     \/ /\ issued < MaxTokens
        /\ issued' = issued + 1
        /\ valid' = (valid \ {tx[t].saw}) \cup {issued + 1}
        /\ tx' = [tx EXCEPT ![t].pc = "r_tokens", ![t].got = issued + 1]
  /\ UNCHANGED <<spoiled, token, grant, acct, linked, slipped, lock>>

\* refresher: invalid_grant.
InvalidGrant(t) ==
  /\ At(t, "r_ask") /\ tx[t].saw \notin valid
  /\ tx' = [tx EXCEPT ![t].pc = "r_invalid", ![t].saw = 0]
  /\ UNCHANGED <<valid, issued, spoiled, token, grant, acct, linked, slipped, lock>>

\* refresher: any other failure; the grant's status is written after the rollback.
RefreshFails(t) ==
  /\ "provider" \in Faults
  /\ At(t, "r_ask")
  /\ Rollback(t) /\ End(t)

\* The answer that carried the new refresh token never arrives.
AnswerLost(t) ==
  /\ "answer" \in Faults
  /\ At(t, "r_ask") /\ tx[t].saw \in valid /\ issued < MaxTokens
  /\ issued' = issued + 1
  /\ valid' = (valid \ {tx[t].saw}) \cup {issued + 1}
  /\ spoiled' = spoiled \cup {tx[t].saw}
  /\ lock' = Released(t) /\ End(t)
  /\ UNCHANGED <<token, grant, acct, linked, slipped>>

\* saveForOAuthConnectionTx: the upsert locks the tokens row.
SaveTokenTx(t) ==
  /\ At(t, "r_tokens") /\ Take(t, "tokens") /\ Go(t, "r_grant")
  /\ UNCHANGED <<valid, issued, spoiled, token, grant, acct, linked, slipped>>

SaveFails(t) ==
  /\ "save" \in Faults
  /\ At(t, "r_tokens")
  /\ Rollback(t) /\ End(t)

\* A renewal that kept the refresh token it was asked with.
CommitRenewalUnrotated(t) ==
  /\ At(t, "r_grant") /\ lock["grant"] \in {Nobody, t}
  /\ token' = Token(tx[t].saw)
  /\ Commit(t)
  /\ UNCHANGED <<valid, issued, spoiled, grant, acct, linked, slipped>>

\* UpdateOAuthConnectionStatusTx(active) and the commit of the renewal.
CommitRenewal(t) ==
  /\ At(t, "r_grant") /\ lock["grant"] \in {Nobody, t}
  /\ token' = Token(tx[t].got)
  /\ Commit(t)
  /\ UNCHANGED <<valid, issued, spoiled, grant, acct, linked, slipped>>

\* MarkInvalidGrantTx: first the grant, then its accounts.
MarkInvalidGrantTx(t) ==
  /\ At(t, "r_invalid") /\ Take(t, "grant") /\ Go(t, "r_siblings")
  /\ UNCHANGED <<valid, issued, spoiled, token, grant, acct, linked, slipped>>

LockSibling(t) ==
  /\ At(t, "r_siblings")
  /\ \E a \in Missing(t) : Take(t, a)
  /\ UNCHANGED <<valid, issued, spoiled, token, grant, acct, linked, slipped, tx>>

CommitInvalidGrant(t) ==
  /\ At(t, "r_siblings") /\ Missing(t) = {}
  /\ acct' = [a \in Accounts |-> IF a \in Wanted(t) THEN "reauth_required" ELSE acct[a]]
  /\ UNCHANGED <<valid, issued, spoiled, grant, token, linked, slipped>>
  /\ Commit(t)

-----------------------------------------------------------------------------
(* Authorization callback *)

\* eligibilityGate
Eligible(a) == acct[a] \in {"pending_authorization", "active", "reauth_required"}

\* AuthorizeChannel: the provider has issued a new refresh token, or none (it
\* may omit it on a repeated consent; a first authorization is then refused).
\* The account's status is read without a lock.
AuthorizeChannel(t, a) ==
  /\ "authorize" \in Ops
  /\ At(t, "idle") /\ Eligible(a)
  /\ UNCHANGED <<spoiled, token, grant, acct, linked, slipped, lock>>
  /\ \/ /\ issued < MaxTokens
        /\ issued' = issued + 1
        /\ valid' = valid \cup {issued + 1}
        /\ tx' = [tx EXCEPT ![t] = [Idle EXCEPT !.pc = "a_grant", !.acct = a, !.got = issued + 1]]
     \/ /\ acct[a] # "pending_authorization"
        /\ tx' = [tx EXCEPT ![t] = [Idle EXCEPT !.pc = "a_grant", !.acct = a]]
        /\ UNCHANGED <<valid, issued>>

\* The user consents with another Google account, whose grant is another row.
AuthorizeElsewhere(t, a) ==
  /\ "authorize" \in Ops
  /\ At(t, "idle") /\ Eligible(a)
  /\ Starts(t, "m_account", a)
  /\ UNCHANGED <<valid, issued, spoiled, token, grant, acct, linked, slipped, lock>>

\* The upsert of oauth_connections locks the grant row; its status is kept.
UpsertGrant(t) ==
  /\ At(t, "a_grant") /\ grant /\ Take(t, "grant") /\ Go(t, "a_tokens")
  /\ UNCHANGED <<valid, issued, spoiled, token, grant, acct, linked, slipped>>

\* The row has been deleted: the upsert inserts another one.
InsertGrant(t) ==
  /\ At(t, "a_grant") /\ ~grant /\ Go(t, "m_account")
  /\ UNCHANGED <<valid, issued, spoiled, token, grant, acct, linked, slipped, lock>>

UpsertTokens(t) ==
  /\ At(t, "a_tokens") /\ Take(t, "tokens") /\ Go(t, "a_account")
  /\ UNCHANGED <<valid, issued, spoiled, token, grant, acct, linked, slipped>>

\* The account is promoted, whatever its status and grant have become, and
\* everything committed.  COALESCE keeps the stored refresh token when the
\* callback brought none.
PromoteAccount(t) ==
  /\ At(t, "a_account") /\ lock[tx[t].acct] \in {Nobody, t}
  /\ token' = Token(IF tx[t].got = 0 THEN token.gen ELSE tx[t].got)
  /\ acct' = [acct EXCEPT ![tx[t].acct] = "active"]
  /\ linked' = linked \cup {tx[t].acct}
  /\ slipped' = FALSE
  /\ Commit(t)
  /\ UNCHANGED <<valid, issued, spoiled, grant>>

\* The same UPDATE, with the id of the other grant.
MoveAccount(t) ==
  /\ At(t, "m_account") /\ lock[tx[t].acct] \in {Nobody, t}
  /\ acct' = [acct EXCEPT ![tx[t].acct] = "active"]
  /\ linked' = linked \ {tx[t].acct}
  /\ slipped' = (slipped \/ Live(tx[t].acct))
  /\ Commit(t)
  /\ UNCHANGED <<valid, issued, spoiled, token, grant>>

-----------------------------------------------------------------------------
(* Disconnection and permanent deletion of one account *)

Leaves(t, a, s) ==
  /\ At(t, "idle")
  /\ tx' = [tx EXCEPT ![t] = [Idle EXCEPT !.pc = "d_account", !.acct = a, !.set = s,
                                           !.here = Linked(a)]]
  /\ UNCHANGED <<valid, issued, spoiled, token, grant, acct, linked, slipped, lock>>

\* disconnectPlatformAccountTx, with the provider's revocation inside it.
Disconnect(t, a) == "disconnect" \in Ops /\ Leaves(t, a, "disconnected")

\* PermanentlyDeleteAccountTx, likewise.
PermanentlyDelete(t, a) ==
  "delete" \in Ops /\ acct[a] # "deleted" /\ Leaves(t, a, "deleted")

\* A tombstone is not buried twice.
Tombstone(t) == tx[t].set = "deleted" /\ acct[tx[t].acct] = "deleted"

LockForDisconnect(t) ==
  /\ At(t, "d_account") /\ Linked(tx[t].acct) /\ ~Tombstone(t)
  /\ Take(t, tx[t].acct) /\ Go(t, "d_advisory")
  /\ UNCHANGED <<valid, issued, spoiled, token, grant, acct, linked, slipped>>

AlreadyDeleted(t) ==
  /\ At(t, "d_account") /\ Tombstone(t)
  /\ lock[tx[t].acct] = Nobody
  /\ Rollback(t) /\ End(t)

\* The provider revokes the whole grant, whichever refresh token names it.
Revoked ==
  /\ token.there /\ token.gen # 0
  /\ valid' = {}
  /\ spoiled' = spoiled \cup valid

\* The account is not on this grant.  The revocation the handler prepared, when
\* the account is the last of its new grant, names the grant it read before.
LeaveOtherGrant(t) ==
  /\ At(t, "d_account") /\ ~Linked(tx[t].acct) /\ ~Tombstone(t)
  /\ lock[tx[t].acct] = Nobody
  /\ \/ tx[t].here /\ Revoked
     \/ UNCHANGED <<valid, spoiled>>
  /\ acct' = [acct EXCEPT ![tx[t].acct] = tx[t].set]
  /\ Commit(t)
  /\ UNCHANGED <<issued, token, grant, linked, slipped>>

\* A disconnection that forgot the advisory lock.
LockGrantForDisconnectNone(t) ==
  /\ At(t, "d_advisory") /\ Go(t, "d_count")
  /\ UNCHANGED <<valid, issued, spoiled, token, grant, acct, linked, slipped, lock>>

LockGrantForDisconnect(t) ==
  /\ At(t, "d_advisory") /\ Take(t, "advisory") /\ Go(t, "d_count")
  /\ UNCHANGED <<valid, issued, spoiled, token, grant, acct, linked, slipped>>

\* A second disconnection of the same account is a no-op; another active account
\* keeps the grant.
LastOnGrant(t) ==
  /\ ~(tx[t].set = "disconnected" /\ acct[tx[t].acct] = "disconnected")
  /\ \A b \in linked \ {tx[t].acct} : acct[b] # "active"

CountSiblings(t) ==
  /\ At(t, "d_count")
  /\ Go(t, IF LastOnGrant(t) THEN "d_revoke" ELSE "d_leave")
  /\ UNCHANGED <<valid, issued, spoiled, token, grant, acct, linked, slipped, lock>>

\* UPDATE platform_accounts: the grant stays with the sibling.
CommitLeave(t) ==
  /\ At(t, "d_leave")
  /\ acct' = [acct EXCEPT ![tx[t].acct] = tx[t].set]
  /\ Commit(t)
  /\ UNCHANGED <<valid, issued, spoiled, token, grant, linked, slipped>>

\* The statement after the revocation: UPDATE oauth_connections, or DELETE FROM
\* tokens when the account is deleted.
AfterRevoke(t) == IF tx[t].set = "deleted" THEN "x_tokens" ELSE "d_grant"

RevokeRemote(t) ==
  /\ At(t, "d_revoke") /\ tx[t].here
  /\ Revoked /\ Go(t, AfterRevoke(t))
  /\ UNCHANGED <<issued, token, grant, acct, linked, slipped, lock>>

\* The callback was made for the grant the account had before, or for none: it
\* revokes that one, or nothing (a deletion without a callback is refused).
RevokeRemoteOther(t) ==
  /\ At(t, "d_revoke") /\ ~tx[t].here
  /\ Go(t, AfterRevoke(t))
  /\ UNCHANGED <<valid, issued, spoiled, token, grant, acct, linked, slipped, lock>>

\* The stored refresh token is missing, or the provider refuses: roll back.
RevokeRemoteFails(t) ==
  /\ At(t, "d_revoke")
  /\ "remote" \in Faults \/ ~tx[t].here \/ ~token.there \/ token.gen = 0
  /\ Rollback(t) /\ End(t)

DisconnectGrantRow(t) ==
  /\ At(t, "d_grant") /\ Take(t, "grant") /\ Go(t, "d_tokens")
  /\ UNCHANGED <<valid, issued, spoiled, token, grant, acct, linked, slipped>>

CommitDisconnect(t) ==
  /\ At(t, "d_tokens") /\ lock["tokens"] \in {Nobody, t}
  /\ token' = NoToken
  /\ acct' = [acct EXCEPT ![tx[t].acct] = "disconnected"]
  /\ slipped' = FALSE
  /\ Commit(t)
  /\ UNCHANGED <<valid, issued, spoiled, grant, linked>>

\* DELETE FROM tokens, DELETE FROM oauth_connections.
DeleteTokens(t) ==
  /\ At(t, "x_tokens") /\ Take(t, "tokens") /\ Go(t, "x_grant")
  /\ UNCHANGED <<valid, issued, spoiled, token, grant, acct, linked, slipped>>

DeleteGrantRow(t) ==
  /\ At(t, "x_grant") /\ Take(t, "grant") /\ Go(t, "x_links")
  /\ UNCHANGED <<valid, issued, spoiled, token, grant, acct, linked, slipped>>

\* Migration 043: ON DELETE SET NULL updates every account of the grant.
NullLink(t) ==
  /\ At(t, "x_links")
  /\ \E a \in Missing(t) : Take(t, a)
  /\ UNCHANGED <<valid, issued, spoiled, token, grant, acct, linked, slipped, tx>>

CommitDelete(t) ==
  /\ At(t, "x_links") /\ Missing(t) = {}
  /\ token' = NoToken
  /\ grant' = FALSE
  /\ acct' = [acct EXCEPT ![tx[t].acct] = "deleted"]
  /\ linked' = {} /\ slipped' = FALSE
  /\ Commit(t)
  /\ UNCHANGED <<valid, issued, spoiled>>

-----------------------------------------------------------------------------
(* Disconnection of the whole grant *)

\* disconnectOAuthGrantTx: the grant row, then its accounts, no advisory lock.
DisconnectGrant(t, a) ==
  /\ "revoke" \in Ops
  /\ At(t, "idle") /\ Linked(a)
  /\ Starts(t, "g_grant", a)
  /\ UNCHANGED <<valid, issued, spoiled, token, grant, acct, linked, slipped, lock>>

LockGrantRow(t) ==
  /\ At(t, "g_grant") /\ grant /\ Take(t, "grant") /\ Go(t, "g_accounts")
  /\ UNCHANGED <<valid, issued, spoiled, token, grant, acct, linked, slipped>>

\* The grant row is gone, or the account is no longer linked to it.
GrantLost(t) ==
  /\ \/ At(t, "g_grant") /\ ~grant
     \/ At(t, "g_accounts") /\ Missing(t) = {} /\ ~Linked(tx[t].acct)
  /\ Rollback(t) /\ End(t)

LockLinkedAccount(t) ==
  /\ At(t, "g_accounts")
  /\ UNCHANGED <<valid, issued, spoiled, token, grant, acct, linked, slipped>>
  /\ \/ /\ \E a \in Missing(t) : Take(t, a)
        /\ UNCHANGED tx
     \/ /\ Missing(t) = {} /\ Linked(tx[t].acct)
        /\ Go(t, "g_revoke") /\ UNCHANGED lock

RevokeGrant(t) ==
  /\ At(t, "g_revoke") /\ Revoked /\ Go(t, "g_tokens")
  /\ UNCHANGED <<issued, token, grant, acct, linked, slipped, lock>>

RevokeGrantFails(t) ==
  /\ At(t, "g_revoke")
  /\ "remote" \in Faults \/ ~token.there \/ token.gen = 0
  /\ Rollback(t) /\ End(t)

CommitDisconnectGrant(t) ==
  /\ At(t, "g_tokens") /\ lock["tokens"] \in {Nobody, t}
  /\ token' = NoToken
  /\ acct' = [a \in Accounts |-> IF Linked(a) THEN "disconnected" ELSE acct[a]]
  /\ slipped' = FALSE
  /\ Commit(t)
  /\ UNCHANGED <<valid, issued, spoiled, grant, linked>>

-----------------------------------------------------------------------------
(* Other writers of account status *)

\* UpdatePlatformAccount writes the whole row as the handler read it, with the
\* status it decided on: the validation 'active' (its token works) or, like the
\* reconnect button and MarkReauthRequired, 'reauth_required'; the metadata
\* handlers whatever status they had read.
UpdatePlatformAccount(t, a) ==
  /\ "status" \in Ops
  /\ At(t, "idle")
  /\ \E s \in {"active", "reauth_required", acct[a]} :
       /\ s = "active" /\ Linked(a) => token.there
       /\ tx' = [tx EXCEPT ![t] = [Idle EXCEPT !.pc = "w_account", !.acct = a, !.set = s]]
  /\ UNCHANGED <<valid, issued, spoiled, token, grant, acct, linked, slipped, lock>>

WriteStatus(t) ==
  /\ At(t, "w_account") /\ lock[tx[t].acct] = Nobody
  /\ acct' = [acct EXCEPT ![tx[t].acct] = tx[t].set]
  /\ UNCHANGED <<valid, issued, spoiled, token, grant, linked>>
  /\ slipped' = ((slipped \/ Live(tx[t].acct)) /\ (Linked(tx[t].acct) => tx[t].set \in Dead))
  /\ Commit(t)

\* A worker's invalid_grant, in one step: what these transactions lock on the way
\* only makes others wait.  MarkOAuthConnectionAccountsReauthRequired holds the
\* advisory lock and spares the disconnected accounts of the grant;
\* MarkSnapshotRefreshTerminal spares the deleted ones too, and marks the account
\* it was asked for whatever its grant.
MarkReauth(rows, spared) ==
  LET marked == {a \in rows : acct[a] \notin spared} IN
    /\ lock["grant"] = Nobody /\ \A a \in marked : lock[a] = Nobody
    /\ acct' = [a \in Accounts |-> IF a \in marked THEN "reauth_required" ELSE acct[a]]
    /\ UNCHANGED <<valid, issued, spoiled, token, grant, linked, slipped, lock, tx>>

MarkConnectionReauth ==
  /\ "mark" \in Ops
  /\ lock["advisory"] = Nobody
  /\ MarkReauth(linked, {"disconnected"})

MarkSnapshotTerminal(a) ==
  /\ "mark" \in Ops
  /\ MarkReauth(IF Linked(a) THEN linked ELSE {a}, {"disconnected", "deleted"})

-----------------------------------------------------------------------------
(* Failures and the environment *)

\* PostgreSQL's deadlock detector aborts one transaction of a circle.
DeadlockVictim(t) ==
  /\ \E C \in SUBSET Txs : t \in C /\ WaitCycle(C)
  /\ Rollback(t) /\ End(t)

\* The request's deadline (refreshOperationTimeout caps a renewal), a commit that
\* fails, or the death of the process: the transaction is rolled back.
TimesOut(t) ==
  /\ "timeout" \in Faults
  /\ ~At(t, "idle")
  /\ Rollback(t) /\ End(t)

\* The user withdraws the consent at the provider.
UserRevokes ==
  /\ valid # {}
  /\ valid' = {} /\ spoiled' = spoiled \cup valid
  /\ UNCHANGED <<issued, token, grant, acct, linked, slipped, lock, tx>>

\* The steps of a transaction that may have to wait for a lock.
LockStep(t) ==
  \/ LockAccount(t) \/ ConnectionChanged(t) \/ LockGrant(t) \/ SaveTokenTx(t) \/ CommitRenewal(t)
  \/ MarkInvalidGrantTx(t) \/ LockSibling(t)
  \/ UpsertGrant(t) \/ UpsertTokens(t) \/ PromoteAccount(t) \/ MoveAccount(t)
  \/ LockForDisconnect(t) \/ AlreadyDeleted(t) \/ LeaveOtherGrant(t)
  \/ LockGrantForDisconnect(t) \/ DisconnectGrantRow(t) \/ CommitDisconnect(t)
  \/ DeleteTokens(t) \/ DeleteGrantRow(t) \/ NullLink(t)
  \/ LockGrantRow(t) \/ LockLinkedAccount(t) \/ CommitDisconnectGrant(t)
  \/ WriteStatus(t)

FreeStep(t) ==
  \/ FindInsideLock(t) \/ Refreshed(t) \/ InvalidGrant(t) \/ RefreshFails(t)
  \/ AnswerLost(t) \/ SaveFails(t) \/ CommitInvalidGrant(t) \/ InsertGrant(t)
  \/ CountSiblings(t) \/ CommitLeave(t) \/ RevokeRemote(t) \/ RevokeRemoteOther(t) \/ RevokeRemoteFails(t)
  \/ CommitDelete(t) \/ GrantLost(t) \/ RevokeGrant(t) \/ RevokeGrantFails(t)
  \/ DeadlockVictim(t)

Begin(t) ==
  \E a \in Accounts :
    \/ Renew(t, a) \/ AuthorizeChannel(t, a) \/ AuthorizeElsewhere(t, a)
    \/ Disconnect(t, a) \/ PermanentlyDelete(t, a) \/ DisconnectGrant(t, a)
    \/ UpdatePlatformAccount(t, a)

Next ==
  \/ \E t \in Txs : Begin(t) \/ LockStep(t) \/ FreeStep(t) \/ TimesOut(t)
  \/ MarkConnectionReauth \/ \E a \in Accounts : MarkSnapshotTerminal(a)
  \/ UserRevokes

Spec == Init /\ [][Next]_vars

-----------------------------------------------------------------------------
\* "concurrent refreshes serialise at the DB level" (vault.go): a refresh token
\* is never presented after a renewal has replaced it and committed.  What the
\* provider refuses is a token revoked there, or one whose replacement was lost
\* with a failed renewal.
NoDoubleSpend ==
  \A t \in Txs : At(t, "r_ask") => tx[t].saw \in valid \cup spoiled

\* The stored refresh token is the one the provider accepts, except while a
\* renewal carries its replacement to the commit, or after a recorded loss.
StoredTokenLive ==
  token.there /\ token.gen # 0 =>
    \/ token.gen \in valid \cup spoiled
    \/ \E t \in Txs : tx[t].pc \in {"r_tokens", "r_grant"} /\ tx[t].saw = token.gen

\* handleDisconnectAccount: "prevents concurrent disconnects from both observing
\* an active sibling and orphaning the last grant".  No order of disconnections,
\* deletions, renewals and authorizations leaves tokens behind that no account
\* uses: only an account that moved to another grant, or a status written from an
\* old read, does.
NoOrphanGrant ==
  token.there => slipped \/ \E a \in Accounts : Live(a)

\* A renewal in flight never brings back the tokens a disconnection deleted: only
\* a new authorization does.
NoResurrection ==
  [][~token.there /\ token'.there => \E t \in Txs : At(t, "a_account")]_vars
=============================================================================
