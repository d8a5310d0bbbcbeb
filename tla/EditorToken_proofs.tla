-------------------------- MODULE EditorToken_proofs --------------------------
(***************************************************************************)
(* Theorems about EditorToken, for any number of reports under way, of     *)
(* retries and of refusals: one mint at a time is what keeps the token     *)
(* from going back, and a report that comes while one is under way is      *)
(* never left with an answer from before it.                               *)
(***************************************************************************)
EXTENDS EditorToken, TLAPS

May == Role \cup {"removed", "ended"}
Answer == [ver : Nat, may : May \cup {"none"}, lapsed : BOOLEAN]
Notice == [kind : May \cup {"close"}, ver : Nat]

\* The variables the other conjuncts speak of keep their shape.
TypeOK ==
  /\ server \in [ver : Nat, may : May]
  /\ token \in Answer
  /\ mint \in [Runner -> [step : {"none", "asked", "answered"}, got : Answer]]
  /\ again \in BOOLEAN
  /\ tries \in [Loop -> Nat]
  /\ notices \in Seq(Notice)
  /\ heard \in Nat

\* Nobody has heard of, minted or been told a change that has not been made.
NothingAhead ==
  /\ token.ver <= server.ver /\ heard <= server.ver
  /\ \A r \in Runner : mint[r].got.ver <= server.ver
  /\ \A i \in 1..Len(notices) : notices[i].ver <= server.ver

OneMint ==
  \A q, r \in Runner : mint[q].step # "none" /\ mint[r].step # "none" => q = r

NoneIsEmpty == \A r \in Runner : mint[r].step = "none" => mint[r] = NoMint

\* The answer a mint has in hand is no older than the token it will replace.
AnswersAreNewer ==
  \A r \in Runner : mint[r].step = "answered" /\ mint[r].got.may \in Role =>
    mint[r].got.ver >= token.ver

\* An answer from before the last report is followed by another mint.
OldAnswersAreFollowed ==
  \A r \in Runner : mint[r].step = "answered" /\ mint[r].got.may \in Role =>
    mint[r].got.ver >= heard \/ again

\* What was heard and is not carried is being asked about, or waits to be.
StillAsking ==
  page = "open" /\ unheard = "no" /\ heard > token.ver =>
    InFlight \/ \E l \in Loop : tries[l] > 0

IInv ==
  /\ TypeOK /\ NothingAhead /\ OneMint /\ NoneIsEmpty
  /\ AnswersAreNewer /\ OldAnswersAreFollowed /\ StillAsking

-----------------------------------------------------------------------------
\* Nothing asked and nothing heard, or one mint asked for at once.
LEMMA InitInv == Init => IInv
<1> SUFFICES ASSUME Init PROVE IInv
  OBVIOUS
<1>1. /\ NoToken \in Answer /\ NoToken.ver = 0
      /\ server \in [ver : Nat, may : May] /\ server.ver = 1 /\ server.may \in May
  BY DEF Init, NoToken, Answer, May, Role
<1>2. token \in Answer /\ token.ver <= 1 /\ token.ver \in Nat
  <2>1. PICK given : /\ given = [ver |-> 1, may |-> server.may, lapsed |-> FALSE]
                     /\ token \in {NoToken, given}
    BY DEF Init
  <2>2. given \in Answer /\ given.ver = 1
    BY <1>1, <2>1 DEF Answer
  <2>3. token = NoToken \/ token = given
    BY <2>1
  <2>4. 0 <= 1 /\ 0 \in Nat /\ 1 \in Nat
    OBVIOUS
  <2> QED
    BY <1>1, <2>2, <2>3, <2>4
<1>3. \A r \in Runner : mint[r] = NoMint \/ (r = "refresh" /\ mint[r] = Asked)
  BY DEF Init
<1>4. mint \in [Runner -> [step : {"none", "asked", "answered"}, got : Answer]]
  BY <1>1 DEF Init, NoMint, Asked
<1>5. notices = << >> /\ tries \in [Loop -> Nat] /\ heard = 0 /\ again \in BOOLEAN
  BY DEF Init
<1>6. \A r \in Runner : mint[r].got.ver = 0 /\ mint[r].step \in {"none", "asked"}
  BY <1>3 DEF NoMint, Asked, NoToken
<1>7. TypeOK
  BY <1>1, <1>2, <1>4, <1>5 DEF TypeOK
<1>8. NothingAhead
  BY <1>1, <1>2, <1>5, <1>6 DEF NothingAhead
<1>9. OneMint /\ NoneIsEmpty
  BY <1>3 DEF OneMint, NoneIsEmpty, NoMint, Asked
<1>10. AnswersAreNewer /\ OldAnswersAreFollowed /\ StillAsking
  BY <1>2, <1>5, <1>6 DEF AnswersAreNewer, OldAnswersAreFollowed, StillAsking
<1> QED
  BY <1>7, <1>8, <1>9, <1>10 DEF IInv

-----------------------------------------------------------------------------
(* Asking.                                                                 *)

\* A step that leaves the mints be, tells nothing new and closes nothing
\* but the page keeps the invariant.
LEMMA Aside ==
  ASSUME IInv, UNCHANGED <<mint, again, tries, heard, unheard>>,
         server' \in [ver : Nat, may : May], server.ver <= server'.ver,
         token' \in Answer, token'.ver = token.ver,
         notices' \in Seq(Notice),
         \A i \in 1..Len(notices') : notices'[i].ver <= server'.ver,
         page' = "open" => page = "open"
  PROVE  IInv'
<1> USE DEF IInv
<1>1. TypeOK'
  BY DEF TypeOK
<1>2. NothingAhead'
  <2>1. /\ token.ver \in Nat /\ heard \in Nat /\ server.ver \in Nat /\ server'.ver \in Nat
        /\ \A r \in Runner : mint[r].got.ver \in Nat
    BY DEF TypeOK, Answer
  <2> QED
    BY <2>1 DEF NothingAhead
<1>3. OneMint' /\ NoneIsEmpty' /\ AnswersAreNewer' /\ OldAnswersAreFollowed'
  BY DEF OneMint, NoneIsEmpty, AnswersAreNewer, OldAnswersAreFollowed
<1>4. StillAsking'
  BY DEF StillAsking, InFlight
<1> QED
  BY <1>1, <1>2, <1>3, <1>4

\* A first mint is asked for: nothing else is in flight, so nothing answered.
LEMMA AskStep ==
  ASSUME IInv, NEW r \in Runner, ~InFlight, Ask(r),
         tries' \in [Loop -> Nat], heard' \in Nat, heard' <= server.ver,
         notices' \in Seq(Notice),
         \A i \in 1..Len(notices') : notices'[i].ver <= server.ver,
         UNCHANGED <<server, token>>
  PROVE  IInv'
<1> USE DEF IInv
<1>1. \A q \in Runner : mint[q].step = "none" /\ mint[q] = NoMint
  BY DEF InFlight, NoneIsEmpty
<1>2. Asked \in [step : {"none", "asked", "answered"}, got : Answer]
  BY DEF Asked, NoToken, Answer
<1>3. /\ mint' \in [Runner -> [step : {"none", "asked", "answered"}, got : Answer]]
      /\ mint'[r] = Asked /\ again' = FALSE
      /\ \A q \in Runner \ {r} : mint'[q] = NoMint
  BY <1>1, <1>2 DEF Ask, TypeOK
<1>4. \A q \in Runner : mint'[q].got.ver = 0 /\ mint'[q].step \in {"none", "asked"}
  BY <1>3 DEF NoMint, Asked, NoToken
<1>5. TypeOK'
  BY <1>3 DEF TypeOK
<1>6. NothingAhead'
  <2>1. server.ver \in Nat
    BY DEF TypeOK
  <2> QED
    BY <2>1, <1>4 DEF NothingAhead
<1>7. OneMint' /\ NoneIsEmpty'
  BY <1>3 DEF OneMint, NoneIsEmpty, NoMint, Asked
<1>8. AnswersAreNewer' /\ OldAnswersAreFollowed'
  BY <1>4 DEF AnswersAreNewer, OldAnswersAreFollowed
<1>9. StillAsking'
  BY <1>3 DEF StillAsking, InFlight, Asked
<1> QED
  BY <1>5, <1>6, <1>7, <1>8, <1>9

\* The mint under way is joined: whatever it answers, another follows.
LEMMA JoinStep ==
  ASSUME IInv, InFlight, JoinMint,
         tries' \in [Loop -> Nat], heard' \in Nat, heard' <= server.ver,
         notices' \in Seq(Notice),
         \A i \in 1..Len(notices') : notices'[i].ver <= server.ver,
         UNCHANGED <<server, token, mint>>
  PROVE  IInv'
<1> USE DEF IInv, JoinMint
<1>1. TypeOK'
  BY DEF TypeOK
<1>2. NothingAhead' /\ OneMint' /\ NoneIsEmpty' /\ AnswersAreNewer'
  BY DEF NothingAhead, OneMint, NoneIsEmpty, AnswersAreNewer
<1>3. OldAnswersAreFollowed' /\ StillAsking'
  BY DEF OldAnswersAreFollowed, StillAsking, InFlight
<1> QED
  BY <1>1, <1>2, <1>3

LEMMA RefreshStep ==
  ASSUME IInv, Refresh, UNCHANGED <<server, token, tries, heard, unheard, notices, page>>
  PROVE  IInv'
<1>1. CASE recent \/ InFlight
  BY <1>1, Aside DEF Refresh, IInv, TypeOK, NothingAhead
<1>2. CASE ~(recent \/ InFlight)
  <2>1. "refresh" \in Runner /\ Ask("refresh") /\ ~InFlight
    BY <1>2 DEF Refresh, Runner
  <2> QED
    BY <2>1, AskStep DEF IInv, TypeOK, NothingAhead
<1> QED
  BY <1>1, <1>2

LEMMA RefreshNowStep ==
  ASSUME IInv, NEW l \in Loop, NEW ver \in Nat, ver <= server.ver, RefreshNow(l, ver),
         notices' \in Seq(Notice),
         \A i \in 1..Len(notices') : notices'[i].ver <= server.ver,
         UNCHANGED <<server, token, tries>>
  PROVE  IInv'
<1>1. heard' \in Nat /\ heard' <= server.ver /\ tries' \in [Loop -> Nat]
  BY DEF RefreshNow, IInv, TypeOK, NothingAhead
<1>2. CASE InFlight
  BY <1>1, <1>2, JoinStep DEF RefreshNow
<1>3. CASE ~InFlight
  BY <1>1, <1>3, AskStep DEF RefreshNow, Runner
<1> QED
  BY <1>2, <1>3

LEMMA WakeStep ==
  ASSUME IInv, NEW l \in Loop, Wake(l)
  PROVE  IInv'
<1>1. /\ tries' \in [Loop -> Nat] /\ UNCHANGED <<server, token, heard, notices>>
      /\ heard \in Nat /\ heard <= server.ver /\ notices \in Seq(Notice)
      /\ \A i \in 1..Len(notices) : notices[i].ver <= server.ver
  BY DEF Wake, net, IInv, TypeOK, NothingAhead
<1>2. CASE InFlight
  BY <1>1, <1>2, JoinStep DEF Wake
<1>3. CASE ~InFlight
  BY <1>1, <1>3, AskStep DEF Wake, Runner
<1> QED
  BY <1>2, <1>3

LEMMA HearStep ==
  ASSUME IInv, NEW l \in Loop, HearFromList(l) \/ HearChanged(l)
  PROVE  IInv'
<1> USE DEF IInv
<1>1. CASE HearFromList(l)
  <2>1. RefreshNow(l, server.ver) /\ UNCHANGED <<server, token, tries, notices>>
    BY <1>1 DEF HearFromList, net
  <2>2. /\ server.ver \in Nat /\ notices \in Seq(Notice)
        /\ \A i \in 1..Len(notices) : notices[i].ver <= server.ver
    BY DEF TypeOK, NothingAhead
  <2> QED
    BY <2>1, <2>2, RefreshNowStep
<1>2. CASE HearChanged(l)
  <2>1. notices \in Seq(Notice) /\ notices # << >> /\ notices' = Tail(notices)
    BY <1>2 DEF HearChanged, TypeOK
  <2>2. Head(notices) = notices[1] /\ 1 \in 1..Len(notices) /\ Head(notices) \in Notice
    BY <2>1
  <2>3. Head(notices).ver \in Nat /\ Head(notices).ver <= server.ver
    BY <2>2 DEF NothingAhead, Notice
  <2>4. notices' \in Seq(Notice) /\ \A i \in 1..Len(notices') : notices'[i] = notices[i + 1]
                                                              /\ i + 1 \in 1..Len(notices)
    BY <2>1
  <2>5. \A i \in 1..Len(notices') : notices'[i].ver <= server.ver
    BY <2>4 DEF NothingAhead
  <2> QED
    BY <1>2, <2>3, <2>4, <2>5, RefreshNowStep DEF HearChanged
<1> QED
  BY <1>1, <1>2

-----------------------------------------------------------------------------
(* Answering.                                                              *)

\* The one mint in flight gets an answer, or none.
LEMMA AnswerStep ==
  ASSUME IInv, NEW r \in Runner, Serve(r) \/ MintFails(r)
  PROVE  IInv'
<1> USE DEF IInv
<1> DEFINE got == mint'[r].got
<1>1. mint[r].step # "none"
  BY DEF Serve, MintFails, NoneIsEmpty
<1>2. \A q \in Runner \ {r} : mint[q].step = "none" /\ mint[q] = NoMint
  BY <1>1 DEF OneMint, NoneIsEmpty
<1>3. /\ UNCHANGED <<server, token, again, tries, notices, heard, unheard, page>>
      /\ \/ mint' = [mint EXCEPT ![r] = [step |-> "answered",
                got |-> [ver |-> server.ver, may |-> server.may, lapsed |-> FALSE]]]
         \/ mint' = [mint EXCEPT ![r] = Failed]
  BY DEF Serve, MintFails, net
<1>4. server \in [ver : Nat, may : May] /\ server.ver \in Nat /\ heard \in Nat
      /\ token.ver \in Nat /\ heard <= server.ver /\ token.ver <= server.ver
  BY DEF TypeOK, Answer, NothingAhead
<1> DEFINE served == [ver |-> server.ver, may |-> server.may, lapsed |-> FALSE]
<1>a. PICK new : /\ mint' = [mint EXCEPT ![r] = new]
                 /\ new = [step |-> "answered", got |-> served] \/ new = Failed
  BY <1>3
<1>b. /\ new \in [step : {"none", "asked", "answered"}, got : Answer]
      /\ new.step = "answered" /\ new.got.ver <= server.ver
      /\ new.got.may \in Role => new.got.ver = server.ver
  <2>1. served \in Answer /\ NoToken \in Answer /\ NoToken.ver = 0 /\ NoToken.may \notin Role
    BY <1>4 DEF Answer, NoToken, Role, May
  <2>2. CASE new = [step |-> "answered", got |-> served]
    <3>1. new.step = "answered" /\ new.got = served
      BY <2>2
    <3>2. served.ver = server.ver
      OBVIOUS
    <3> HIDE DEF served
    <3> QED
      BY <1>4, <2>1, <2>2, <3>1, <3>2
  <2>3. CASE new = Failed
    <3>1. new = [step |-> "answered", got |-> NoToken]
      BY <2>3 DEF Failed
    <3>2. new.step = "answered" /\ new.got = NoToken
      BY <3>1
    <3> QED
      BY <1>4, <2>1, <3>1, <3>2
  <2> QED
    BY <1>a, <2>2, <2>3
<1> HIDE DEF served
<1>5. /\ mint' \in [Runner -> [step : {"none", "asked", "answered"}, got : Answer]]
      /\ mint'[r].step = "answered"
      /\ got.ver <= server.ver /\ (got.may \in Role => got.ver = server.ver)
  BY <1>a, <1>b DEF TypeOK
<1>6. \A q \in Runner \ {r} : mint'[q] = NoMint /\ mint'[q].step = "none"
                               /\ mint'[q].got.ver = 0
  <2>1. NoMint.step = "none" /\ NoMint.got.ver = 0
    BY DEF NoMint, NoToken
  <2> QED
    BY <1>2, <1>a, <2>1 DEF TypeOK
<1>7. TypeOK'
  BY <1>3, <1>5 DEF TypeOK
<1>8. NothingAhead'
  BY <1>3, <1>4, <1>5, <1>6 DEF NothingAhead
<1>9. OneMint' /\ NoneIsEmpty'
  BY <1>5, <1>6 DEF OneMint, NoneIsEmpty
<1>10. AnswersAreNewer' /\ OldAnswersAreFollowed'
  BY <1>3, <1>4, <1>5, <1>6 DEF AnswersAreNewer, OldAnswersAreFollowed
<1>11. StillAsking'
  BY <1>5 DEF StillAsking, InFlight
<1> QED
  BY <1>7, <1>8, <1>9, <1>10, <1>11

\* What a settled mint leaves behind: the same request again, or nothing, and
\* a token no older than the one it had.
LEMMA Settled ==
  ASSUME IInv, NEW r \in Runner, Settle(r)
  PROVE  /\ UNCHANGED <<server, heard, notices>> /\ again' = FALSE
         /\ mint' \in [Runner -> [step : {"none", "asked", "answered"}, got : Answer]]
         /\ mint'[r] = IF again THEN Asked ELSE NoMint
         /\ \A q \in Runner \ {r} : mint'[q] = NoMint
         /\ token' \in Answer /\ token.ver <= token'.ver /\ token'.ver <= server.ver
         /\ tries' \in [Loop -> Nat]
<1> USE DEF IInv
<1>1. mint[r].step = "answered" /\ mint[r].got \in Answer
      /\ mint[r].got.ver <= server.ver
  BY DEF Settle, TypeOK, NothingAhead
<1>2. \A q \in Runner \ {r} : mint[q] = NoMint
  BY <1>1 DEF OneMint, NoneIsEmpty
<1>3. /\ UNCHANGED <<server, heard, notices>> /\ again' = FALSE
      /\ mint' = [mint EXCEPT ![r] = IF again THEN Asked ELSE NoMint]
  BY DEF Settle, net
<1>4. Asked \in [step : {"none", "asked", "answered"}, got : Answer]
      /\ NoMint \in [step : {"none", "asked", "answered"}, got : Answer]
  BY DEF Asked, NoMint, NoToken, Answer
<1>5. /\ mint' \in [Runner -> [step : {"none", "asked", "answered"}, got : Answer]]
      /\ mint'[r] = IF again THEN Asked ELSE NoMint
      /\ \A q \in Runner \ {r} : mint'[q] = NoMint
  BY <1>2, <1>3, <1>4 DEF TypeOK
<1>6. token' \in Answer /\ token.ver <= token'.ver /\ token'.ver <= server.ver
  <2>1. token \in Answer /\ token.ver \in Nat /\ token.ver <= server.ver
    BY DEF TypeOK, Answer, NothingAhead
  <2>2. CASE mint[r].got.may \in Role
    <3>1. token' = mint[r].got
      BY <2>2 DEF Settle
    <3>2. token.ver <= mint[r].got.ver
      BY <1>1, <2>2 DEF AnswersAreNewer
    <3> QED
      BY <1>1, <3>1, <3>2
  <2>3. CASE mint[r].got.may \notin Role
    <3>1. token' = token
      BY <2>3 DEF Settle
    <3> QED
      BY <2>1, <3>1
  <2> QED
    BY <2>2, <2>3
<1>7. tries' \in [Loop -> Nat]
  <2>1. \/ tries' = tries
        \/ tries' = [tries EXCEPT ![r] = 0]
        \/ tries' = [tries EXCEPT ![r] = IF @ < RETRIES THEN @ + 1 ELSE 0]
    BY DEF Settle, RunFailed
  <2> QED
    BY <2>1 DEF TypeOK
<1> QED
  BY <1>3, <1>5, <1>6, <1>7

\* A run that ends without another mint carries what was heard, or closes the
\* page, or is to be tried again, or says that it was lost.
LEMMA SettleAsks ==
  ASSUME IInv, NEW r \in Runner, Settle(r), ~again
  PROVE  page' = "open" /\ unheard' = "no" /\ heard > token'.ver =>
           \E l \in Loop : tries'[l] > 0
<1> USE DEF IInv
<1> SUFFICES ASSUME page' = "open", unheard' = "no", heard > token'.ver
             PROVE  \E l \in Loop : tries'[l] > 0
  OBVIOUS
<1> DEFINE may == mint[r].got.may
           over == may = "ended"
                   /\ GivesUp(IF may = "ended" THEN refusals + 1 ELSE refusals)
<1>1. mint[r].step = "answered" /\ mint[r].got.ver \in Nat /\ heard \in Nat
      /\ token.ver \in Nat
  BY DEF Settle, TypeOK, Answer
<1>2. may \notin Role
  <2> SUFFICES ASSUME may \in Role PROVE FALSE
    OBVIOUS
  <2>1. token' = mint[r].got
    BY DEF Settle
  <2>2. mint[r].got.ver >= heard
    BY <1>1 DEF OldAnswersAreFollowed
  <2> QED
    BY <1>1, <2>1, <2>2
<1>3. token' = token
  BY <1>2 DEF Settle
<1>4. ~over /\ may # "removed"
  BY DEF Settle
<1>5. RunFailed(r)
  BY <1>2, <1>4 DEF Settle
<1> QED
  BY <1>1, <1>3, <1>5 DEF RunFailed

LEMMA SettleStep ==
  ASSUME IInv, NEW r \in Runner, Settle(r)
  PROVE  IInv'
<1> USE DEF IInv
<1>0. /\ UNCHANGED <<server, heard, notices>> /\ again' = FALSE
      /\ mint' \in [Runner -> [step : {"none", "asked", "answered"}, got : Answer]]
      /\ mint'[r] = IF again THEN Asked ELSE NoMint
      /\ \A q \in Runner \ {r} : mint'[q] = NoMint
      /\ token' \in Answer /\ token.ver <= token'.ver /\ token'.ver <= server.ver
      /\ tries' \in [Loop -> Nat]
  BY Settled
<1>1. server.ver \in Nat /\ heard \in Nat /\ heard <= server.ver /\ token'.ver \in Nat
  BY <1>0 DEF TypeOK, NothingAhead, Answer
<1>2. \A q \in Runner : mint'[q].got.ver = 0 /\ mint'[q].step \in {"none", "asked"}
  <2>1. /\ NoMint.step = "none" /\ NoMint.got.ver = 0
        /\ Asked.step = "asked" /\ Asked.got.ver = 0
    BY DEF NoMint, Asked, NoToken
  <2> QED
    BY <1>0, <2>1
<1>3. TypeOK'
  BY <1>0 DEF TypeOK
<1>4. NothingAhead'
  <2>1. \A i \in 1..Len(notices') : notices'[i].ver <= server'.ver
    BY <1>0 DEF NothingAhead
  <2> QED
    BY <1>0, <1>1, <1>2, <2>1 DEF NothingAhead
<1>5. OneMint' /\ NoneIsEmpty'
  BY <1>0 DEF OneMint, NoneIsEmpty, NoMint, Asked
<1>6. AnswersAreNewer' /\ OldAnswersAreFollowed'
  BY <1>2 DEF AnswersAreNewer, OldAnswersAreFollowed
<1>7. StillAsking'
  <2>1. CASE again
    BY <1>0, <2>1 DEF StillAsking, InFlight, Asked
  <2>2. CASE ~again
    BY <1>0, <2>2, SettleAsks DEF StillAsking
  <2> QED
    BY <2>1, <2>2 DEF TypeOK
<1> QED
  BY <1>3, <1>4, <1>5, <1>6, <1>7

-----------------------------------------------------------------------------
(* The rest.                                                               *)

\* A reloaded tab has heard nothing and asks for at most one mint.
LEMMA ReloadStep ==
  ASSUME IInv, Reload
  PROVE  IInv'
<1> USE DEF IInv
<1>1. /\ UNCHANGED <<server, token>> /\ heard' = 0 /\ notices' = << >>
      /\ again' = FALSE /\ tries' \in [Loop -> Nat]
  BY DEF Reload
<1>2. NoMint \in [step : {"none", "asked", "answered"}, got : Answer]
      /\ Asked \in [step : {"none", "asked", "answered"}, got : Answer]
  BY DEF NoMint, Asked, NoToken, Answer
<1>3. /\ mint' \in [Runner -> [step : {"none", "asked", "answered"}, got : Answer]]
      /\ \A r \in Runner : mint'[r] = NoMint \/ (r = "refresh" /\ mint'[r] = Asked)
  BY <1>2 DEF Reload
<1>4. \A r \in Runner : mint'[r].got.ver = 0 /\ mint'[r].step \in {"none", "asked"}
  BY <1>3 DEF NoMint, Asked, NoToken
<1>5. server.ver \in Nat /\ token.ver \in Nat /\ token.ver <= server.ver
  BY DEF TypeOK, Answer, NothingAhead
<1>6. TypeOK'
  <2>1. << >> \in Seq(Notice)
    OBVIOUS
  <2>2. notices' \in Seq(Notice) /\ heard' \in Nat /\ again' \in BOOLEAN
    BY <1>1, <2>1
  <2> QED
    BY <1>1, <1>3, <2>2 DEF TypeOK
<1>7. NothingAhead'
  BY <1>1, <1>4, <1>5 DEF NothingAhead
<1>8. OneMint' /\ NoneIsEmpty'
  BY <1>3 DEF OneMint, NoneIsEmpty, NoMint, Asked
<1>9. AnswersAreNewer' /\ OldAnswersAreFollowed' /\ StillAsking'
  BY <1>1, <1>4, <1>5 DEF AnswersAreNewer, OldAnswersAreFollowed, StillAsking
<1> QED
  BY <1>6, <1>7, <1>8, <1>9

\* The server tells the connection what it found.
LEMMA ReauthorizeStep ==
  ASSUME IInv, Reauthorize
  PROVE  IInv'
<1> USE DEF IInv
<1> DEFINE notice == [kind |-> server.may, ver |-> server.ver]
           close == [kind |-> "close", ver |-> 0]
<1>1. server \in [ver : Nat, may : May] /\ server.ver \in Nat
      /\ notice \in Notice /\ close \in Notice
      /\ notice.ver <= server.ver /\ close.ver <= server.ver
  BY DEF TypeOK, Notice
<1>2. notices' = Append(notices, notice) \/ notices' = notices \o <<notice, close>>
  BY DEF Reauthorize
<1> HIDE DEF notice, close
<1>3. notices \in Seq(Notice) /\ \A i \in 1..Len(notices) : notices[i].ver <= server.ver
  BY DEF TypeOK, NothingAhead
<1>4. PICK more : /\ more = <<notice>> \/ more = <<notice, close>>
                  /\ notices' = notices \o more /\ more \in Seq(Notice)
  <2>1. <<notice>> \in Seq(Notice) /\ <<notice, close>> \in Seq(Notice)
    BY <1>1
  <2>2. Append(notices, notice) = notices \o <<notice>>
    BY <1>1, <1>3
  <2> QED
    BY <1>2, <2>1, <2>2
<1>5. \A i \in 1..Len(more) : more[i].ver <= server.ver
  BY <1>1, <1>4
<1>6. /\ notices' \in Seq(Notice)
      /\ \A i \in 1..Len(notices') : notices'[i].ver <= server.ver
  <2>1. notices' \in Seq(Notice)
    BY <1>3, <1>4
  <2> SUFFICES ASSUME NEW i \in 1..Len(notices') PROVE notices'[i].ver <= server.ver
    BY <2>1
  <2>2. CASE i <= Len(notices)
    BY <1>3, <1>4, <2>2
  <2>3. CASE i > Len(notices)
    <3>1. i - Len(notices) \in 1..Len(more) /\ notices'[i] = more[i - Len(notices)]
      BY <1>3, <1>4, <2>3
    <3> QED
      BY <1>5, <3>1
  <2> QED
    BY <1>3, <2>2, <2>3
<1>7. UNCHANGED <<server, token, mint, again, tries, page, heard, unheard>>
  BY DEF Reauthorize
<1> QED
  BY <1>1, <1>6, <1>7, Aside DEF TypeOK

LEMMA StopStep ==
  ASSUME IInv, NEW outcome \in {"closed", "left"}, Stop(outcome)
  PROVE  IInv'
BY Aside DEF Stop, IInv, TypeOK

LEMMA NextInv == IInv /\ [Next]_vars => IInv'
<1> SUFFICES ASSUME IInv, [Next]_vars PROVE IInv'
  OBVIOUS
<1>1. ASSUME NEW may \in May, Change(may) PROVE IInv'
  <2>1. server' \in [ver : Nat, may : May] /\ server.ver <= server'.ver
        /\ server.ver \in Nat /\ server'.ver \in Nat
    BY <1>1 DEF Change, IInv, TypeOK
  <2>2. UNCHANGED <<token, mint, again, tries, notices, heard, unheard, page>>
        /\ token \in Answer /\ notices \in Seq(Notice)
    BY <1>1 DEF Change, net, IInv, TypeOK
  <2>3. ASSUME NEW i \in 1..Len(notices') PROVE notices'[i].ver <= server'.ver
    <3>1. i \in 1..Len(notices) /\ notices'[i] = notices[i] /\ notices[i] \in Notice
      BY <2>2, <2>3
    <3>2. notices[i].ver \in Nat /\ notices[i].ver <= server.ver
      BY <3>1 DEF Notice, IInv, NothingAhead
    <3> QED
      BY <2>1, <3>1, <3>2
  <2> QED
    BY <2>1, <2>2, <2>3, Aside
<1>2. ASSUME NEW r \in Runner, Serve(r) \/ MintFails(r) \/ Settle(r) PROVE IInv'
  BY <1>2, AnswerStep, SettleStep
<1>3. ASSUME NEW l \in Loop, Wake(l) \/ HearFromList(l) \/ HearChanged(l) PROVE IInv'
  BY <1>3, WakeStep, HearStep
<1>4. CASE Lull
  BY <1>4, Aside DEF Lull, net, IInv, TypeOK, NothingAhead
<1>5. CASE FireTimer
  BY <1>5, RefreshStep DEF FireTimer, net
<1>6. CASE Lapse
  <2>1. token' \in Answer /\ token'.ver = token.ver
    BY <1>6 DEF Lapse, IInv, TypeOK, Answer
  <2> QED
    BY <1>6, <2>1, Aside DEF Lapse, net, IInv, TypeOK, NothingAhead
<1>7. CASE Connect
  BY <1>7, Aside DEF Connect, IInv, TypeOK
<1>8. CASE ConnectRefused
  BY <1>8, StopStep DEF ConnectRefused
<1>9. CASE ConnectLapsed
  BY <1>9, RefreshStep DEF ConnectLapsed, net
<1>10. CASE Reauthorize
  BY <1>10, ReauthorizeStep
<1>11. CASE HearTheEnd
  BY <1>11, StopStep DEF HearTheEnd
<1>12. CASE Drop
  BY <1>12, Aside DEF Drop, IInv, TypeOK
<1>13. CASE Reload
  BY <1>13, ReloadStep
<1>14. CASE UNCHANGED vars
  BY <1>14, Aside DEF vars, net, IInv, TypeOK, NothingAhead
<1> QED
  BY <1>1, <1>2, <1>3, <1>4, <1>5, <1>6, <1>7, <1>8, <1>9, <1>10, <1>11, <1>12,
     <1>13, <1>14 DEF Next, Hear, Reach, May

-----------------------------------------------------------------------------
\* The invariant of every state: one mint at a time, no answer older than the
\* token, and no report left to an answer from before it.
THEOREM Invariance == Spec => []IInv
<1>1. Init => IInv
  BY InitInv
<1>2. IInv /\ [Next]_vars => IInv'
  BY NextInv
<1> QED
  BY <1>1, <1>2, PTL DEF Spec

\* However reports of change overlap mints, retries and the schedule, once
\* nothing is under way the token carries every one of them, unless the last
\* mint that was to carry it failed (useAuthToken.ts).
THEOREM WhatIsHeardIsCarried == Spec => []HeardIsCarried
<1>1. IInv => HeardIsCarried
  <2> SUFFICES ASSUME IInv, Quiet, unheard = "no" PROVE token.ver >= heard
    BY DEF HeardIsCarried
  <2>1. token.ver \in Nat /\ heard \in Nat
    BY DEF IInv, TypeOK, Answer
  <2>2. ~(\E l \in Loop : tries[l] > 0) /\ ~InFlight /\ page = "open"
    BY DEF Quiet
  <2> QED
    BY <2>1, <2>2 DEF IInv, StillAsking
<1> QED
  BY <1>1, Invariance, PTL

\* No answer that comes late puts an older role back (useAuthToken.ts).
THEOREM NeverBack == Spec => TokenNeverGoesBack
<1>1. IInv /\ [Next]_vars => [token'.ver >= token.ver]_vars
  <2> SUFFICES ASSUME IInv, Next PROVE token'.ver >= token.ver
    BY DEF vars
  <2>1. token.ver \in Nat
    BY DEF IInv, TypeOK, Answer
  <2>2. ASSUME NEW r \in Runner, Settle(r) PROVE token'.ver >= token.ver
    BY <2>1, <2>2, Settled DEF Answer
  <2>3. CASE Lapse
    BY <2>1, <2>3 DEF Lapse, IInv, TypeOK, Answer
  <2>4. CASE ~Lapse /\ ~(\E r \in Runner : Settle(r))
    <3>1. token' = token
      BY <2>4 DEF Next, Hear, Reach, Change, Serve, MintFails, Wake, HearFromList, Lull,
        FireTimer, Connect, ConnectRefused, ConnectLapsed, Stop, Reauthorize, HearChanged,
        HearTheEnd, Drop, Reload
    <3> QED
      BY <2>1, <3>1
  <2> QED
    BY <2>2, <2>3, <2>4
<1> QED
  BY <1>1, Invariance, PTL DEF Spec, TokenNeverGoesBack

=============================================================================
