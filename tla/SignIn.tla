------------------------------- MODULE SignIn -------------------------------
(***************************************************************************)
(* Signing in: the nonces and tokens of server/src/services/session.js     *)
(* behind server/src/api/auth.js, kept by the nonce file of                *)
(* server/src/db/json.js, and the page that uses them: the wallet of       *)
(* web/public/js/wallet.js, the requests and the stored session of         *)
(* api.js, and the connected state of app.js.                              *)
(*                                                                         *)
(* One page, one server.  A request the page has given up on may still     *)
(* reach the server (its answer is dropped), a verify request may be       *)
(* delivered again, a write of the nonce file may fail, and the server may *)
(* restart.  The visitor switches accounts in the wallet, disconnects and  *)
(* reloads whenever they like, and signs in while the page still boots.    *)
(* What an address, a text or a signature looks like is left out: a text   *)
(* is the wallet and nonce it names, a signature is the account that made  *)
(* it and the text it is over.                                             *)
(***************************************************************************)
EXTENDS Integers, FiniteSets

CONSTANTS
  Accounts,     \* the accounts in the visitor's wallet
  Nobody,       \* no account, or one nobody holds
  NonceTTL,     \* NONCE_TTL_MS
  SessionTTL,   \* SESSION_TTL_MS
  NonceMax, NonceWindow,  \* the throttle of /api/auth/nonce
  KeepSecret,   \* SESSION_SECRET is set, so tokens outlive a restart
  MaxTime,      \* bound: the end of time
  MaxClicks,    \* bound: sign-ins begun
  MaxCrashes,   \* bound: restarts of the server
  MaxMishaps    \* bound: writes that fail, requests delivered again, reloads of the page, and
                \* changes of the wallet's account or chain, together

ASSUME AccountsAssumption == Nobody \notin Accounts
ASSUME TimesAssumption ==
  /\ {NonceTTL, SessionTTL, NonceMax} \subseteq Nat \ {0} /\ NonceWindow \in Nat
  /\ KeepSecret \in BOOLEAN
ASSUME BoundsAssumption ==
  {MaxTime, MaxClicks, MaxCrashes, MaxMishaps} \subseteq Nat

VARIABLES
  now,       \* the clock
  boot,      \* how often the server has started: the secret of a process without SESSION_SECRET
  nonces, onDisk,  \* the nonces in memory, and in the file: pairs <<wallet, nonce>>
  minted,    \* nonces minted so far
  recent,    \* the throttle's count per wallet
  taken,     \* verify requests whose nonce was consumed, not yet answered
  issued,    \* every token issued, with the nonce it was issued for
  net,       \* requests on their way to the server
  flow,      \* the sign-in the page is in
  booting,   \* app.js: how far boot has come, beside a sign-in
  me,        \* the GET /api/me the page waits for, one at a time
  stored,    \* the session in localStorage
  active,    \* wallet.js: active and activeAddress
  shown,     \* app.js: state.me, as the wallet it names
  silenced,  \* ghost: the wallet is shown without its session, which restore dropped
  walletAt, chainOk,  \* the wallet app: its account, and whether it is on the chain
  signed,    \* every signature the wallet has made
  clicks, mishaps

server == <<boot, nonces, onDisk, minted, recent, taken, issued>>
session == <<booting, me, stored, active, shown, silenced>>
page   == <<flow, session>>
app    == <<walletAt, chainOk>>
bounds == <<clicks, mishaps>>
vars   == <<now, boot, nonces, onDisk, minted, recent, taken, issued, net, flow, booting, me,
            stored, active, shown, silenced, walletAt, chainOk, signed, clicks, mishaps>>

Time    == 0 .. MaxTime
MaxNonces == 2 * MaxClicks  \* a nonce request is sent at most twice
Nonce   == [id : 1 .. MaxNonces, at : Time]
Text    == [wallet : Accounts, nonce : Nonce]
Sig     == [by : Accounts, over : Text]
Token   == [wallet : Accounts, exp : Nat, boot : 1 .. MaxCrashes + 1]
NoToken == [wallet |-> Nobody, exp |-> 0, boot |-> 0]

\* A request; "live" while the page waits for its answer.
Request ==
  [kind : {"nonce"}, wallet : Accounts, live : BOOLEAN]
    \cup [kind : {"verify"}, wallet : Accounts, nonce : Nonce, sig : Sig, live : BOOLEAN]
    \cup [kind : {"me"}, token : Token, live : BOOLEAN]

Idle  == [at |-> "idle"]
Flow  ==
  {Idle, [at |-> "connect"], [at |-> "wrong_chain"]}
    \cup [at : {"chain"}, address : Accounts]
    \cup [at : {"nonce"}, address : Accounts, try : 1 .. 2]
    \cup [at : {"challenged"}, address : Accounts, text : Text]
    \cup [at : {"sign"}, address : Accounts, with : Accounts, text : Text]
    \cup [at : {"verify"}, address : Accounts]
    \cup [at : {"verified"}, token : Token]
    \cup [at : {"refused"}, address : Accounts]

Booted  == [at |-> "done"]
Loading == [at |-> "loading"]
Booting == {Booted, Loading} \cup [at : {"restoring"}, session : Token]

NotAsking == [at |-> "none"]
Me == {NotAsking} \cup [at : {"asked"}, try : 1 .. 2]
                  \cup [at : {"answer"}, wallet : Accounts] \cup {[at |-> "unauthorized"], [at |-> "failed"]}

\* Each variable holds a value of its type.
TypeOK ==
  /\ now \in Time /\ boot \in 1 .. MaxCrashes + 1
  /\ nonces \subseteq Accounts \X Nonce /\ onDisk \subseteq Accounts \X Nonce
  /\ minted \in 0 .. MaxNonces
  /\ recent \in [Accounts -> [count : Nat, since : Time]]
  /\ taken \subseteq {r \in Request : r.kind = "verify"}
  /\ issued \subseteq [token : Token, nonce : Nonce, nth : Nat]
  /\ net \subseteq Request /\ flow \in Flow /\ booting \in Booting /\ me \in Me
  /\ stored \in Token \cup {NoToken}
  /\ active \in Accounts \cup {Nobody} /\ shown \in Accounts \cup {Nobody} /\ silenced \in BOOLEAN
  /\ walletAt \in Accounts \cup {Nobody} /\ chainOk \in BOOLEAN
  /\ signed \subseteq Sig
  /\ clicks \in 0 .. MaxClicks /\ mishaps \in 0 .. MaxMishaps

Init ==
  /\ now = 0 /\ boot = 1 /\ nonces = {} /\ onDisk = {} /\ minted = 0
  /\ recent = [w \in Accounts |-> [count |-> 0, since |-> 0]]
  /\ taken = {} /\ issued = {} /\ net = {}
  /\ flow = Idle /\ booting = Loading /\ me = NotAsking /\ stored = NoToken
  /\ active = Nobody /\ shown = Nobody /\ silenced = FALSE
  /\ walletAt \in Accounts /\ chainOk \in BOOLEAN /\ signed = {}
  /\ clicks = 0 /\ mishaps = 0

-----------------------------------------------------------------------------
(* The server.                                                             *)

\* The nonce's time as verify reads it from the nonce itself.
Fresh(nonce) == now - nonce.at \in 0 .. NonceTTL

\* pruneNonces: a nonce expires when its time is up, to the instant.
Prune(kept) == {wn \in kept : wn[2].at + NonceTTL > now}

\* mintNonce: its time, and something nobody else has.
Mint == [id |-> minted + 1, at |-> now]

\* buildSignInMessage
SignInMessage(wallet, nonce) == [wallet |-> wallet, nonce |-> nonce]

\* putNonce, takeNonce: what the store remembers afterwards.
PutNonce(wallet, nonce)  == Prune(nonces) \cup {<<wallet, nonce>>}
LessNonce(wallet, nonce) == Prune(nonces) \ {<<wallet, nonce>>}

\* throttled: the wallet's count, in a window that starts with its first request.
Counted(wallet) ==
  IF recent[wallet].count = 0 \/ now - recent[wallet].since > NonceWindow
  THEN [count |-> 1, since |-> now]
  ELSE [recent[wallet] EXCEPT !.count = @ + 1]

\* One of the things that go wrong.
Mishap == mishaps < MaxMishaps /\ mishaps' = mishaps + 1

\* flushNonces: the whole file is replaced, or the write fails and the call throws.
Flush(kept, wrote) ==
  IF wrote THEN onDisk' = kept /\ UNCHANGED mishaps
  ELSE Mishap /\ UNCHANGED onDisk

\* The page gets the answer to the request it waits for, and to no other.
AnswerFlow(r, answer) == flow' = IF r.live THEN answer ELSE flow

\* POST /api/auth/nonce
IssueNonce(r) ==
  /\ r.kind = "nonce" /\ net' = net \ {r}
  /\ LET entry == Counted(r.wallet)
         kept  == PutNonce(r.wallet, Mint)
     IN /\ recent' = [recent EXCEPT ![r.wallet] = entry]
        /\ \/ /\ entry.count > NonceMax
              /\ AnswerFlow(r, [at |-> "refused", address |-> r.wallet])
              /\ UNCHANGED <<nonces, onDisk, minted, mishaps>>
           \/ /\ entry.count <= NonceMax
              /\ minted' = minted + 1 /\ nonces' = kept
              /\ \E wrote \in BOOLEAN :
                   /\ Flush(kept, wrote)
                   /\ AnswerFlow(r, IF wrote
                        THEN [at |-> "challenged", address |-> r.wallet,
                              text |-> SignInMessage(r.wallet, Mint)]
                        ELSE [at |-> "refused", address |-> r.wallet])
  /\ UNCHANGED <<now, boot, taken, issued, session, app, signed, clicks>>

\* Mutant: a file that could not be written stops nothing.
TakeNonceUnwritten(r) ==
  /\ r.kind = "verify" /\ net' = net \ {r} /\ Fresh(r.nonce)
  /\ <<r.wallet, r.nonce>> \in Prune(nonces)
  /\ nonces' = LessNonce(r.wallet, r.nonce)
  /\ \E wrote \in BOOLEAN : Flush(nonces', wrote)
  /\ taken' = taken \cup {r}
  /\ UNCHANGED <<flow, now, boot, minted, recent, issued, session, app, signed, clicks>>

\* POST /api/auth/verify up to takeNonce: an expired nonce is refused before it is taken; a
\* nonce that is taken is gone from memory whatever the write does.
TakeNonce(r) ==
  /\ r.kind = "verify" /\ net' = net \ {r}
  /\ LET refused == AnswerFlow(r, [at |-> "refused", address |-> r.wallet])
         kept    == LessNonce(r.wallet, r.nonce)
     IN \/ /\ ~Fresh(r.nonce) /\ refused
           /\ UNCHANGED <<taken, nonces, onDisk, mishaps>>
        \/ /\ Fresh(r.nonce) /\ nonces' = kept
           /\ \E wrote \in BOOLEAN :
                /\ Flush(kept, wrote)
                /\ IF wrote /\ <<r.wallet, r.nonce>> \in Prune(nonces)
                   THEN taken' = taken \cup {r} /\ UNCHANGED flow
                   ELSE refused /\ UNCHANGED taken
  /\ UNCHANGED <<now, boot, minted, recent, issued, session, app, signed, clicks>>

\* recoverAddress: whoever signed this text; over another text, an address nobody holds.
Recover(text, sig) == IF sig.over = text THEN sig.by ELSE Nobody

\* Mutant: the signature is checked over the text it came with.
VerifySignatureOverItsText(wallet, text, sig) == sig.over.wallet = wallet

\* verifySignature
VerifySignature(wallet, text, sig) == Recover(text, sig) = wallet

\* issueToken
TokenFor(wallet) == [wallet |-> wallet, exp |-> now + SessionTTL, boot |-> boot]

\* The rest of verify, and the me document of the answer (which may fail).
IssueToken(r) ==
  /\ r \in taken /\ taken' = taken \ {r}
  /\ LET text  == SignInMessage(r.wallet, r.nonce)
         token == TokenFor(r.wallet)
     IN \/ /\ ~VerifySignature(r.wallet, text, r.sig)
           /\ AnswerFlow(r, [at |-> "refused", address |-> r.wallet]) /\ UNCHANGED issued
        \/ /\ VerifySignature(r.wallet, text, r.sig)
           /\ issued' = issued \cup
                {[token |-> token, nonce |-> r.nonce,
                  nth |-> 1 + Cardinality({i \in issued : i.nonce = r.nonce})]}
           /\ \E built \in BOOLEAN :
                AnswerFlow(r, IF built THEN [at |-> "verified", token |-> token]
                              ELSE [at |-> "refused", address |-> r.wallet])
  /\ UNCHANGED <<now, boot, nonces, onDisk, minted, recent, net, session, app, signed, bounds>>

\* readToken: signed with this process's secret, and not expired.
ReadToken(token) == (KeepSecret \/ token.boot = boot) /\ token.exp > now

\* sessionFromRequest and requireAuth: a request without a good token gets a 401.
Authorised(r) == ReadToken(r.token)

\* GET /api/me
AnswerMe(r) ==
  /\ r.kind = "me" /\ net' = net \ {r}
  /\ \/ ~r.live /\ UNCHANGED me
     \/ r.live /\ ~Authorised(r) /\ me' = [at |-> "unauthorized"]
     \/ r.live /\ Authorised(r)
        /\ me' \in {[at |-> "answer", wallet |-> r.token.wallet], [at |-> "failed"]}
  /\ UNCHANGED <<now, server, flow, booting, stored, active, shown, silenced, app, signed, bounds>>

\* The server stops and starts again: what it held in memory is read from the file; what was
\* still on its way is lost, or reaches the new process.
Restart ==
  /\ boot <= MaxCrashes /\ boot' = boot + 1
  /\ nonces' = onDisk
  /\ recent' = [w \in Accounts |-> [count |-> 0, since |-> 0]] /\ taken' = {}
  /\ net' \in {{}, net}
  /\ UNCHANGED <<now, onDisk, minted, issued, page, app, signed, bounds>>

\* A verify request is delivered again, to nobody who waits for its answer.
DeliverAgain ==
  /\ Mishap
  /\ \E r \in net \cup taken : r.kind = "verify" /\ net' = net \cup {[r EXCEPT !.live = FALSE]}
  /\ UNCHANGED <<now, server, page, app, signed, clicks>>

-----------------------------------------------------------------------------
(* The page's sign-in: connectWallet and wallet.signIn.                    *)

\* session.get: a session whose time is up is dropped when it is read.
Held == IF stored # NoToken /\ stored.exp > now THEN stored ELSE NoToken

\* The page stops waiting for a request of one of these kinds; it may still arrive.
Deaf(requests, kinds) ==
  {IF r.kind \in kinds THEN [r EXCEPT !.live = FALSE] ELSE r : r \in requests}

FlowOnly == UNCHANGED <<now, server, net, session, app, signed, bounds>>

\* The visitor picks the wallet in the modal, which the header opens for a page without a
\* session, and the other buttons for a page that shows no wallet: also while the page boots.
ClickConnect ==
  /\ flow.at \in {"idle", "wrong_chain"} /\ clicks < MaxClicks /\ clicks' = clicks + 1
  /\ Held = NoToken \/ shown = Nobody
  /\ flow' = [at |-> "connect"] /\ stored' = Held
  /\ UNCHANGED <<now, server, net, booting, me, active, shown, silenced, app, signed, mishaps>>

\* connect: the wallet grants its account, or the visitor refuses.
Connect ==
  /\ flow.at = "connect"
  /\ \/ /\ walletAt # Nobody /\ active' = walletAt
        /\ flow' = [at |-> "chain", address |-> walletAt]
     \/ flow' = Idle /\ UNCHANGED active
  /\ UNCHANGED <<now, server, net, booting, me, stored, shown, silenced, app, signed, bounds>>

\* currentChain: what the wallet may answer; without one there is no answer.
ChainAnswers == {"unknown"} \cup (IF active = Nobody THEN {} ELSE {IF chainOk THEN "ok" ELSE "other"})

\* The chain is checked (no answer counts as another chain), then authNonce.
CheckChain ==
  /\ flow.at = "chain"
  /\ \/ /\ ChainAnswers \cap {"unknown", "other"} # {}
        /\ flow' = [at |-> "wrong_chain"] /\ UNCHANGED net
     \/ /\ "ok" \in ChainAnswers
        /\ flow' = [at |-> "nonce", address |-> flow.address, try |-> 1]
        /\ net' = net \cup {[kind |-> "nonce", wallet |-> flow.address, live |-> TRUE]}
  /\ UNCHANGED <<now, server, session, app, signed, bounds>>

\* The switch button: the wallet moves to the chain, and the sign-in starts over.
SwitchChain ==
  /\ flow.at = "wrong_chain" /\ active # Nobody /\ Mishap
  /\ chainOk' = TRUE /\ flow' = [at |-> "connect"]
  /\ UNCHANGED <<now, server, net, session, walletAt, signed, clicks>>

\* signMessage: the wallet is asked for a signature of the account that is active by now.
AskSignature ==
  /\ flow.at = "challenged"
  /\ flow' = IF active = Nobody THEN Idle
             ELSE [at |-> "sign", address |-> flow.address, with |-> active, text |-> flow.text]
  /\ FlowOnly

\* The visitor signs, or does not; then authVerify, for the address the sign-in began with.
Sign ==
  /\ flow.at = "sign"
  /\ \/ LET sig == [by |-> flow.with, over |-> flow.text]
        IN /\ signed' = signed \cup {sig}
           /\ net' = net \cup {[kind |-> "verify", wallet |-> flow.address,
                                nonce |-> flow.text.nonce, sig |-> sig, live |-> TRUE]}
           /\ flow' = [at |-> "verify", address |-> flow.address]
     \/ flow' = Idle /\ UNCHANGED <<signed, net>>
  /\ UNCHANGED <<now, server, session, app, bounds>>

\* applyConnected, applyDisconnected
ApplyConnected(wallet) == shown' = wallet /\ silenced' = FALSE
ApplyDisconnected      == shown' = Nobody /\ silenced' = FALSE

\* session.set, and the me document that came along
SignedIn ==
  /\ flow.at = "verified" /\ flow' = Idle
  /\ stored' = flow.token /\ ApplyConnected(flow.token.wallet)
  /\ UNCHANGED <<now, server, net, booting, me, active, app, signed, bounds>>

\* The page shows why the sign-in was refused.
Refused == flow.at = "refused" /\ flow' = Idle /\ FlowOnly

\* Mutant: a sign-in that timed out is never given up.
GiveUpNonceOnly ==
  /\ flow.at = "nonce" /\ flow.try = 2 /\ flow' = Idle
  /\ net' = Deaf(net, {"nonce", "verify"}) /\ taken' = Deaf(taken, {"verify"})
  /\ UNCHANGED <<now, boot, nonces, onDisk, minted, recent, issued, session, app, signed, bounds>>

\* No answer in time, or no connection: a nonce is asked for once more, a signature is not
\* offered again.
GiveUp ==
  /\ flow.at \in {"nonce", "verify"}
  /\ LET retries == flow.at = "nonce" /\ flow.try = 1
     IN /\ flow' = IF retries THEN [flow EXCEPT !.try = 2] ELSE Idle
        /\ net' = Deaf(net, {"nonce", "verify"}) \cup
             (IF retries THEN {[kind |-> "nonce", wallet |-> flow.address, live |-> TRUE]} ELSE {})
        /\ taken' = Deaf(taken, {"verify"})
  /\ UNCHANGED <<now, boot, nonces, onDisk, minted, recent, issued, session, app, signed, bounds>>

-----------------------------------------------------------------------------
(* The page's session: loadMe, restore, disconnect.                        *)

\* loadMe: nothing at all without a session.
LoadMe ==
  /\ me = NotAsking /\ stored' = Held
  /\ IF Held = NoToken THEN UNCHANGED <<me, net>>
     ELSE /\ me' = [at |-> "asked", try |-> 1]
          /\ net' = net \cup {[kind |-> "me", token |-> Held, live |-> TRUE]}

\* The poll, or a button.
AskMe ==
  /\ stored # NoToken /\ LoadMe
  /\ UNCHANGED <<now, server, flow, booting, active, shown, silenced, app, signed, bounds>>

\* Mutant: the page keeps what it shows when its session is refused.
EndSessionQuietly == stored' = NoToken /\ UNCHANGED <<shown, silenced>>

\* A 401: session.clear, and the page says so.
EndSession == stored' = NoToken /\ ApplyDisconnected

\* The answer is applied, whatever the session is by now; or the end of the session; or
\* an error that leaves both as they are.
GotMe ==
  /\ me.at \in {"answer", "unauthorized", "failed"} /\ me' = NotAsking
  /\ \/ me.at = "answer" /\ ApplyConnected(me.wallet) /\ UNCHANGED stored
     \/ me.at = "unauthorized" /\ EndSession
     \/ me.at = "failed" /\ UNCHANGED <<stored, shown, silenced>>
  /\ UNCHANGED <<now, server, net, flow, booting, active, app, signed, bounds>>

\* No answer: once more, with the token stored by now (none is a 401), then given up.
GiveUpMe ==
  /\ me.at = "asked"
  /\ \/ /\ me.try = 1 /\ stored' = Held
        /\ IF Held = NoToken
           THEN me' = [at |-> "unauthorized"] /\ net' = Deaf(net, {"me"})
           ELSE /\ me' = [at |-> "asked", try |-> 2]
                /\ net' = Deaf(net, {"me"}) \cup {[kind |-> "me", token |-> Held, live |-> TRUE]}
     \/ /\ me.try = 2 /\ me' = [at |-> "failed"] /\ net' = Deaf(net, {"me"}) /\ UNCHANGED stored
  /\ UNCHANGED <<now, server, flow, booting, active, shown, silenced, app, signed, bounds>>

\* wallet.disconnect
ForgetWallet == active' = Nobody /\ stored' = NoToken

\* The disconnect button of a page that shows a wallet.
Disconnect ==
  /\ shown # Nobody /\ ForgetWallet /\ ApplyDisconnected
  /\ UNCHANGED <<now, server, net, flow, booting, me, app, signed, bounds>>

\* The page is loaded again: it keeps nothing but localStorage.
Reload ==
  /\ Mishap
  /\ flow' = Idle /\ booting' = Loading /\ me' = NotAsking /\ active' = Nobody /\ ApplyDisconnected
  /\ net' = Deaf(net, {"nonce", "verify", "me"}) /\ taken' = Deaf(taken, {"verify"})
  /\ UNCHANGED <<now, boot, nonces, onDisk, minted, recent, issued, stored, app, signed, clicks>>

\* boot has loaded the panels, however long that took: restore reads the session there is by
\* now, and without one there is nothing to restore.
BeginRestore ==
  /\ booting = Loading /\ stored' = Held
  /\ booting' = IF Held = NoToken THEN Booted ELSE [at |-> "restoring", session |-> Held]
  /\ UNCHANGED <<now, server, net, flow, me, active, shown, silenced, app, signed, bounds>>

\* The wallet is connected silently to another account than that of the session restore read:
\* whatever session there is by now is dropped, and what the page shows stays.
DropSession ==
  /\ walletAt \notin {Nobody, booting.session.wallet}
  /\ ForgetWallet /\ silenced' = (shown # Nobody)
  /\ UNCHANGED <<me, net>>

\* It is connected to the session's account, or does not answer.  Then loadMe.
KeepSession ==
  /\ active' \in {active} \cup ({walletAt} \cap {booting.session.wallet})
  /\ LoadMe /\ UNCHANGED silenced

\* The rest of restore, once the wallet has been asked.
Restore ==
  /\ booting.at = "restoring" /\ booting' = Booted
  /\ DropSession \/ KeepSession
  /\ UNCHANGED <<now, server, flow, shown, app, signed, bounds>>

-----------------------------------------------------------------------------
(* The wallet app, and time.                                               *)

\* The visitor selects another account, or locks the wallet (accountsChanged).
AccountsChanged ==
  /\ Mishap
  /\ walletAt' \in (Accounts \cup {Nobody}) \ {walletAt}
  /\ active' = IF active = Nobody THEN Nobody ELSE walletAt'
  /\ UNCHANGED <<now, server, net, flow, booting, me, stored, shown, silenced, chainOk, signed, clicks>>

\* The visitor changes the wallet's network.
ChainChanged ==
  /\ Mishap /\ chainOk' = ~chainOk
  /\ UNCHANGED <<now, server, net, page, walletAt, signed, clicks>>

Tick ==
  /\ now < MaxTime /\ now' = now + 1
  /\ UNCHANGED <<server, net, page, app, signed, bounds>>

Serve == \E r \in net : IssueNonce(r) \/ TakeNonce(r) \/ AnswerMe(r)
Issue == \E r \in taken : IssueToken(r)

Next ==
  \/ Serve \/ Issue \/ Restart \/ DeliverAgain
  \/ ClickConnect \/ Connect \/ CheckChain \/ SwitchChain \/ AskSignature \/ Sign \/ SignedIn
  \/ Refused \/ GiveUp
  \/ AskMe \/ GotMe \/ GiveUpMe \/ Disconnect \/ Reload \/ BeginRestore \/ Restore
  \/ AccountsChanged \/ ChainChanged \/ Tick

\* Promises settle, requests are answered or time out (and GET /api/me not for ever), the page
\* polls, and the visitor answers what the wallet asks.
Fairness ==
  /\ WF_vars(Serve) /\ WF_vars(Issue) /\ SF_vars(\E r \in net : r.live /\ AnswerMe(r))
  /\ WF_vars(Connect \/ CheckChain \/ AskSignature \/ Sign \/ SignedIn \/ Refused)
  /\ WF_vars(BeginRestore \/ Restore)
  /\ WF_vars(GiveUp) /\ WF_vars(AskMe) /\ WF_vars(GotMe) /\ WF_vars(GiveUpMe)

Spec == Init /\ [][Next]_vars /\ Fairness

-----------------------------------------------------------------------------
(* Properties.                                                             *)

\* A nonce is worth one token at most, however often its signature is delivered, and although
\* the write that burns it may fail and the server may restart from the file before it.
OneTokenPerNonce == \A i \in issued : i.nth = 1

\* A token names a wallet whose own account signed the very nonce it was issued for: a flow in
\* whose middle the wallet switched accounts earns none for either account.
TokenIsEarned ==
  \A i \in issued :
    [by |-> i.token.wallet, over |-> [wallet |-> i.token.wallet, nonce |-> i.nonce]] \in signed

\* Every token was earned, once: by the signature of its wallet's account over a nonce that
\* has earned no other (session.js:444-541).
TokensAreEarned == OneTokenPerNonce /\ TokenIsEarned

\* A sign-in that has begun ends: signed in, or back where it can be tried again.
SignInEnds == flow.at \notin {"idle", "wrong_chain"} ~> flow.at \in {"idle", "wrong_chain"}

\* A page whose session the server no longer accepts, because it started again with a new
\* secret, comes to say so: it stops showing the wallet, or has a session of this boot.  (The
\* session is one whose time is not up meanwhile: one that expires in the browser is never
\* asked about again; nor is one that restore drops under a wallet signed in while it ran.)
EndOfSessionIsShown ==
  (stored # NoToken /\ shown # Nobody /\ ~KeepSecret /\ stored.boot < boot /\ stored.exp > MaxTime)
    ~> (shown = Nobody \/ stored.boot = boot \/ silenced)

-----------------------------------------------------------------------------
(* The inductive invariant behind TokensAreEarned.  The types are those of *)
(* TypeOK without the bounds.                                              *)

AnyNonce == [id : Nat, at : Nat]
AnyText  == [wallet : Accounts, nonce : AnyNonce]
AnySig   == [by : Accounts, over : AnyText]
AnyToken == [wallet : Accounts, exp : Nat, boot : Nat]
AnyVerify == [kind : {"verify"}, wallet : Accounts, nonce : AnyNonce, sig : AnySig, live : BOOLEAN]
AnyRequest ==
  [kind : {"nonce"}, wallet : Accounts, live : BOOLEAN]
    \cup AnyVerify \cup [kind : {"me"}, token : AnyToken, live : BOOLEAN]
AnyFlow ==
  {Idle, [at |-> "connect"], [at |-> "wrong_chain"]}
    \cup [at : {"chain"}, address : Accounts]
    \cup [at : {"nonce"}, address : Accounts, try : Nat]
    \cup [at : {"challenged"}, address : Accounts, text : AnyText]
    \cup [at : {"sign"}, address : Accounts, with : Accounts, text : AnyText]
    \cup [at : {"verify"}, address : Accounts]
    \cup [at : {"verified"}, token : AnyToken]
    \cup [at : {"refused"}, address : Accounts]

ValuesInv ==
  /\ now \in Nat /\ boot \in Nat /\ minted \in Nat
  /\ nonces \cup onDisk \subseteq Accounts \X AnyNonce
  /\ net \subseteq AnyRequest /\ taken \subseteq AnyVerify
  /\ flow \in AnyFlow /\ stored \in AnyToken \cup {NoToken}
  /\ active \in Accounts \cup {Nobody} /\ walletAt \in Accounts \cup {Nobody}
  /\ signed \subseteq AnySig

\* A signature that is under way was made.
SignedInv == \A r \in net \cup taken : r.kind = "verify" => r.sig \in signed

\* A nonce stands for one sign-in, and is in one place: kept, in memory or in the file;
\* taken by one request that is not answered; or spent on a token.
NonceInv ==
  /\ \A p \in nonces \cup onDisk : p[2].id <= minted
  /\ \A p, q \in nonces \cup onDisk : p[2] = q[2] => p = q
  /\ \A r \in taken : r.nonce.id <= minted
  /\ \A r \in taken : \A p \in nonces \cup onDisk : p[2] # r.nonce
  /\ \A r, s \in taken : r.nonce = s.nonce => r = s
  /\ \A i \in issued : i.nonce \in AnyNonce /\ i.nonce.id <= minted
  /\ \A i \in issued : \A p \in nonces \cup onDisk : p[2] # i.nonce
  /\ \A i \in issued : \A r \in taken : r.nonce # i.nonce

IInv == ValuesInv /\ SignedInv /\ NonceInv /\ TokensAreEarned
=============================================================================
