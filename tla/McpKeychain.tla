----------------------------- MODULE McpKeychain -----------------------------
(***************************************************************************)
(* HaskellAgentMcpKeychain.c: the credential of one account in the system  *)
(* keychain, which other processes change between two calls of a writer.   *)
(* Each SecItem call is atomic and may fail for reasons of its own. Bad    *)
(* identifiers and lengths return before anything happens.                 *)
(***************************************************************************)
EXTENDS Integers

CONSTANTS
    KeychainClients,   \* threads and processes that use the account
    Credentials,       \* values written, one per client and attempt
    NoCredential       \* there is no item

ASSUME CredentialsAssumption == NoCredential \notin Credentials

VARIABLES
    item,              \* what the keychain holds
    keychainCall,      \* client -> the SecItem call it makes next, or "none"
    writing,           \* client -> the value it writes or wrote last
    copy,              \* client -> the malloc'ed copy a read returned
    keychainStatus,    \* client -> what its last call returned
    disturbed          \* client -> a delete or a platform failure hit its write

keychainVars == <<item, keychainCall, writing, copy, keychainStatus, disturbed>>

KeychainInit ==
    /\ item \in Credentials \cup {NoCredential}
    /\ keychainCall = [c \in KeychainClients |-> "none"]
    /\ writing = [c \in KeychainClients |-> NoCredential]
    /\ copy = [c \in KeychainClients |-> NoCredential]
    /\ keychainStatus = [c \in KeychainClients |-> "none"]
    /\ disturbed = [c \in KeychainClients |-> FALSE]

Goto(c, call) == keychainCall' = [keychainCall EXCEPT ![c] = call]
Status(c, s) == keychainStatus' = [keychainStatus EXCEPT ![c] = s]
Disturb(clients) == disturbed' = [c \in KeychainClients |-> disturbed[c] \/ c \in clients]

\* agent_mcp_keychain_read copies the data; the caller's bracket has it wiped
\* and freed by agent_mcp_keychain_release.
KeychainRead(c) ==
    /\ keychainCall[c] = "none" /\ copy[c] = NoCredential
    /\ \/ /\ item # NoCredential /\ copy' = [copy EXCEPT ![c] = item]
          /\ Status(c, "success")
       \/ item = NoCredential /\ UNCHANGED copy /\ Status(c, "notFound")
       \/ UNCHANGED copy /\ Status(c, "failure")
    /\ writing' = [writing EXCEPT ![c] = NoCredential]
    /\ UNCHANGED <<item, keychainCall, disturbed>>
KeychainRelease(c) ==
    /\ copy[c] # NoCredential /\ copy' = [copy EXCEPT ![c] = NoCredential]
    /\ UNCHANGED <<item, keychainCall, writing, keychainStatus, disturbed>>

\* agent_mcp_keychain_write: update, else add, else update what another process
\* added in between.
KeychainWrite(c, v) ==
    /\ keychainCall[c] = "none" /\ copy[c] = NoCredential
    /\ Goto(c, "update") /\ writing' = [writing EXCEPT ![c] = v]
    /\ disturbed' = [disturbed EXCEPT ![c] = FALSE] /\ Status(c, "none")
    /\ UNCHANGED <<item, copy>>

Returns(c, s) == Goto(c, "none") /\ Status(c, s) /\ UNCHANGED <<writing, copy>>
Stores(c) == item' = writing[c] /\ Returns(c, "success") /\ UNCHANGED disturbed

SecItemUpdate(c) ==
    /\ keychainCall[c] \in {"update", "updateAgain"}
    /\ IF item # NoCredential THEN Stores(c)
       ELSE /\ IF keychainCall[c] = "update"
               THEN Goto(c, "add") /\ UNCHANGED <<writing, copy, keychainStatus>>
               ELSE Returns(c, "failure")
            /\ UNCHANGED <<item, disturbed>>

\* Mutant of SecItemAdd: a duplicate is a failure.
SecItemAddOnce(c) ==
    /\ keychainCall[c] = "add"
    /\ IF item = NoCredential THEN Stores(c)
       ELSE Returns(c, "failure") /\ UNCHANGED <<item, disturbed>>

SecItemAdd(c) ==
    /\ keychainCall[c] = "add"
    /\ IF item = NoCredential THEN Stores(c)
       ELSE Goto(c, "updateAgain") /\ UNCHANGED <<item, writing, copy, keychainStatus, disturbed>>

\* The keychain is locked, or the user refuses.
PlatformFails(c) ==
    /\ keychainCall[c] # "none" /\ Returns(c, "failure") /\ Disturb({c}) /\ UNCHANGED item

\* agent_mcp_keychain_delete; an item that is not there counts as deleted.
KeychainDelete(c) ==
    /\ keychainCall[c] = "none" /\ copy[c] = NoCredential
    /\ \/ item' = NoCredential /\ Status(c, "success") /\ Disturb(KeychainClients \ {c})
       \/ Status(c, "failure") /\ UNCHANGED <<item, disturbed>>
    /\ writing' = [writing EXCEPT ![c] = NoCredential]
    /\ UNCHANGED <<keychainCall, copy>>

KeychainNext ==
    \E c \in KeychainClients :
        \/ KeychainRead(c) \/ KeychainRelease(c) \/ KeychainDelete(c)
        \/ \E v \in Credentials : KeychainWrite(c, v)
        \/ SecItemUpdate(c) \/ SecItemAdd(c) \/ PlatformFails(c)

KeychainSpec == KeychainInit /\ [][KeychainNext]_keychainVars

\* Writers of one account do not defeat each other: a write fails only if the
\* platform refused it or someone deleted the credential while it was under
\* way. Two logins that store at the same time both succeed.
RacingWritersSucceed ==
    \A c \in KeychainClients :
        writing[c] # NoCredential /\ keychainCall[c] = "none" /\ ~disturbed[c]
            => keychainStatus[c] # "failure"

=============================================================================
