---------------------------- MODULE TokenRotation ----------------------------
(***************************************************************************)
(* TokenRotationManager of 12_auth/token_rotation.go, and clients that     *)
(* keep one refresh token each: their answers may be lost, and a token may *)
(* be shared, as by the tabs of a browser (token_rotation.md:20, :83).     *)
(* Tokens of a family are numbered in the order in which they are made.    *)
(***************************************************************************)
EXTENDS Integers, TLAPS

CONSTANTS Client, Family,
          MaxTokens   \* bound: tokens of a family

RotationParameters == MaxTokens \in Nat

Token == 1..MaxTokens

VARIABLES current,    \* CurrentToken of each family, 0 before CreateFamily
          used,       \* UsedTokens
          revoked,    \* families with Revoked
          held,       \* what a client keeps: a family and its last token, if any
          call,       \* "none"; "asking", a Rotate on its way; "answered", its answer
          fresh,      \* the token in that answer
          mishaps,    \* history: families with a shared token or a lost answer
          presented,  \* history: tokens Rotate was called with
          reused      \* history: families with a token it was called with again

vars == <<current, used, revoked, held, call, fresh, mishaps, presented, reused>>

Init ==
  /\ current = [f \in Family |-> 0] /\ used = [f \in Family |-> {}]
  /\ revoked = {} /\ mishaps = {} /\ reused = {}
  /\ held = [c \in Client |-> {}] /\ call = [c \in Client |-> "none"]
  /\ fresh = [c \in Client |-> 0]
  /\ presented = [f \in Family |-> {}]

\* c keeps token t of family f.
Keeps(c, f, t) == [family |-> f, token |-> t] \in held[c]

-----------------------------------------------------------------------------
\* CreateFamily, at login; its answer arrives, or the client logs in again.
CreateFamily(c, f) ==
  /\ held[c] = {} /\ current[f] = 0 /\ MaxTokens > 0
  /\ current' = [current EXCEPT ![f] = 1]
  /\ held' = [held EXCEPT ![c] = {[family |-> f, token |-> 1]}]
  /\ UNCHANGED <<used, revoked, call, fresh, mishaps, presented, reused>>

\* The client asks for the next token.
Ask(c) ==
  /\ call[c] = "none" /\ held[c] # {}
  /\ call' = [call EXCEPT ![c] = "asking"]
  /\ UNCHANGED <<current, used, revoked, held, fresh, mishaps, presented, reused>>

Present(f, t) ==
  /\ presented' = [presented EXCEPT ![f] = @ \cup {t}]
  /\ reused' = IF t \in presented[f] THEN reused \cup {f} ELSE reused

\* UsedTokens after an exchange.
UsedDropped(f, t) == used
UsedRecorded(f, t) == [used EXCEPT ![f] = @ \cup {t}]

\* Rotate, under the mutex: the current token is exchanged,
Rotate(c, f, t) ==
  /\ call[c] = "asking" /\ Keeps(c, f, t) /\ Present(f, t)
  /\ f \notin revoked /\ t \notin used[f] /\ current[f] = t /\ t < MaxTokens
  /\ used' = UsedRecorded(f, t)
  /\ current' = [current EXCEPT ![f] = t + 1]
  /\ call' = [call EXCEPT ![c] = "answered"] /\ fresh' = [fresh EXCEPT ![c] = t + 1]
  /\ UNCHANGED <<revoked, held, mishaps>>

\* a used one revokes its family, any other one is refused; the client gives up.
Reuse(c, f, t) ==
  /\ call[c] = "asking" /\ Keeps(c, f, t) /\ Present(f, t)
  /\ IF f \notin revoked /\ t \in used[f]
       THEN revoked' = revoked \cup {f}
       ELSE (f \in revoked \/ current[f] # t) /\ UNCHANGED revoked
  /\ call' = [call EXCEPT ![c] = "none"] /\ held' = [held EXCEPT ![c] = {}]
  /\ UNCHANGED <<current, used, fresh, mishaps>>

Receive(c, f, t) ==
  /\ call[c] = "answered" /\ Keeps(c, f, t)
  /\ call' = [call EXCEPT ![c] = "none"]
  /\ held' = [held EXCEPT ![c] = {[family |-> f, token |-> fresh[c]]}]
  /\ UNCHANGED <<current, used, revoked, fresh, mishaps, presented, reused>>

\* The answer is lost: the client keeps the token that it has.
LoseAnswer(c, f, t) ==
  /\ call[c] = "answered" /\ Keeps(c, f, t)
  /\ call' = [call EXCEPT ![c] = "none"] /\ mishaps' = mishaps \cup {f}
  /\ UNCHANGED <<current, used, revoked, held, fresh, presented, reused>>

\* Another client starts from the same token.
Share(c, d) ==
  /\ held[c] # {} /\ held[d] = {}
  /\ held' = [held EXCEPT ![d] = held[c]]
  /\ mishaps' = mishaps \cup {k.family : k \in held[c]}
  /\ UNCHANGED <<current, used, revoked, call, fresh, presented, reused>>

Next ==
  \/ \E c \in Client, f \in Family : CreateFamily(c, f)
  \/ \E c \in Client : Ask(c)
  \/ \E c \in Client, f \in Family, t \in Token :
       Rotate(c, f, t) \/ Reuse(c, f, t) \/ Receive(c, f, t) \/ LoseAnswer(c, f, t)
  \/ \E c, d \in Client : Share(c, d)

Spec == Init /\ [][Next]_vars

-----------------------------------------------------------------------------
\* Every variable keeps its type.
TypeOK ==
  /\ current \in [Family -> 0..MaxTokens] /\ used \in [Family -> SUBSET Token]
  /\ {revoked, mishaps, reused} \subseteq SUBSET Family
  /\ held \in [Client -> SUBSET [family : Family, token : Token]]
  /\ call \in [Client -> {"none", "asking", "answered"}]
  /\ fresh \in [Client -> 0..MaxTokens]
  /\ presented \in [Family -> SUBSET Token]

\* A family is revoked when, and only when, Rotate was called with one of its tokens
\* again, whoever made the two calls and whatever was exchanged in between.
ReuseDetected == revoked = reused

\* No client is logged out for nothing: one whose answers arrive and that does not
\* share its token never presents it again.
RevokedForCause == revoked \subseteq mishaps

RotationSound == ReuseDetected /\ RevokedForCause

-----------------------------------------------------------------------------
\* The tokens of a family are one line: all before the current one are used, and of
\* a family that is not revoked no other one was presented.
Line ==
  \A f \in Family :
    /\ used[f] = 1..(current[f] - 1)
    /\ f \notin revoked => presented[f] = used[f]
    /\ \A c \in Client, t \in Token : Keeps(c, f, t) =>
         /\ t <= current[f]
         /\ call[c] = "answered" => fresh[c] \in 1..current[f]

\* A client keeps one token, and without one it asks for nothing.
OneToken ==
  \A c \in Client :
    (\A k, l \in held[c] : k = l) /\ (held[c] = {} => call[c] = "none")

\* Without a mishap one client has the family's current token or its answer.
Alone ==
  \A f \in Family \ mishaps : \A c \in Client, t \in Token : Keeps(c, f, t) =>
    /\ \A d \in Client, u \in Token : Keeps(d, f, u) => d = c
    /\ current[f] = IF call[c] = "answered" THEN fresh[c] ELSE t

IInv == TypeOK /\ Line /\ OneToken /\ Alone /\ RotationSound

\* At first there is no family and nobody keeps a token.
LEMMA InitLemma == RotationParameters /\ Init => IInv
  BY DEF RotationParameters, Init, IInv, TypeOK, Token, Line, OneToken, Alone, Keeps,
         RotationSound, ReuseDetected, RevokedForCause

\* A new family has its first token, with the client that made it.
LEMMA CreateLemma ==
  ASSUME RotationParameters, IInv, NEW c \in Client, NEW f \in Family, CreateFamily(c, f)
  PROVE  IInv'
<1> USE DEF Token, Keeps
<1>1. TypeOK' /\ RotationSound'
  BY DEF RotationParameters, IInv, TypeOK, RotationSound, ReuseDetected, RevokedForCause,
         CreateFamily
<1>2. \A d \in Client, t \in Token : ~Keeps(d, f, t)
  BY DEF IInv, Line, CreateFamily, TypeOK, RotationParameters
<1>3. OneToken'
  BY DEF IInv, TypeOK, OneToken, CreateFamily
<1>4. used[f] = {} /\ call[c] = "none"
  BY DEF IInv, Line, OneToken, CreateFamily
<1>5. Line'
  BY <1>2, <1>4 DEF IInv, TypeOK, Line, CreateFamily, RotationParameters
<1>6. Alone'
  BY <1>2, <1>4 DEF IInv, TypeOK, Alone, CreateFamily, RotationParameters
<1> QED BY <1>1, <1>3, <1>5, <1>6 DEF IInv

\* The current token is exchanged: no one has presented it before.
LEMMA RotateLemma ==
  ASSUME RotationParameters, IInv, NEW c \in Client, NEW f \in Family, NEW t \in Token,
         Rotate(c, f, t)
  PROVE  IInv'
<1> USE DEF Token, Keeps
<1>1. t \notin presented[f] /\ t = current[f] /\ t + 1 \in Token
  BY DEF IInv, Line, Rotate, RotationParameters
<1>2. TypeOK'
  BY <1>1 DEF IInv, TypeOK, Rotate, Present, UsedRecorded
<1>3. OneToken' /\ RotationSound'
  BY <1>1 DEF IInv, OneToken, RotationSound, ReuseDetected, RevokedForCause, Rotate, Present
<1>4. Line'
  <2> SUFFICES ASSUME NEW g \in Family, NEW e \in Client, NEW u \in Token
               PROVE  /\ used'[g] = 1..(current'[g] - 1)
                      /\ g \notin revoked' => presented'[g] = used'[g]
                      /\ Keeps(e, g, u)' =>
                           u <= current'[g] /\ (call'[e] = "answered" => fresh'[e] \in 1..current'[g])
    BY <1>1 DEF Line
  <2>0. 1..(t - 1) \cup {t} = 1..t /\ (t + 1) - 1 = t
    OBVIOUS
  <2>1. used'[g] = 1..(current'[g] - 1)
    BY <1>1, <2>0 DEF IInv, TypeOK, Line, Rotate, UsedRecorded
  <2>2. g \notin revoked' => presented'[g] = used'[g]
    BY DEF IInv, TypeOK, Line, Rotate, Present, UsedRecorded
  <2>3. Keeps(e, g, u)' =>
          u <= current'[g] /\ (call'[e] = "answered" => fresh'[e] \in 1..current'[g])
    BY <1>1 DEF IInv, TypeOK, Line, OneToken, Rotate
  <2> QED BY <2>1, <2>2, <2>3
<1>5. Alone'
  BY <1>1 DEF IInv, TypeOK, Alone, OneToken, Rotate
<1> QED BY <1>2, <1>3, <1>4, <1>5 DEF IInv

\* A token that is refused is of a family that is revoked, or was presented before.
LEMMA ReuseLemma ==
  ASSUME RotationParameters, IInv, NEW c \in Client, NEW f \in Family, NEW t \in Token,
         Reuse(c, f, t)
  PROVE  IInv'
<1> USE DEF Token, Keeps
<1>1. f \in revoked \/ t \in used[f]
  BY DEF IInv, TypeOK, Line, Reuse, RotationParameters
<1>2. t \in used[f] => f \in mishaps
  <2>1. f \notin mishaps => current[f] = t
    BY DEF IInv, Alone, Reuse
  <2>2. used[f] = 1..(current[f] - 1)
    BY DEF IInv, Line
  <2> QED BY <2>1, <2>2
<1>3. f \in revoked' /\ revoked' = revoked \cup {f} /\ reused' = reused \cup {f}
  <2>1. CASE f \in revoked
    <3>1. revoked \cup {f} = revoked /\ reused \cup {f} = reused
      BY <2>1 DEF IInv, RotationSound, ReuseDetected
    <3> QED BY <2>1, <3>1 DEF Reuse, Present
  <2>2. CASE f \notin revoked
    <3>1. t \in used[f] /\ t \in presented[f]
      BY <1>1, <2>2 DEF IInv, Line
    <3> QED BY <2>2, <3>1 DEF Reuse, Present
  <2> QED BY <2>1, <2>2
<1>4. TypeOK' /\ OneToken'
  BY <1>3 DEF IInv, TypeOK, OneToken, Reuse, Present
<1>5. RotationSound'
  BY <1>1, <1>2, <1>3 DEF IInv, RotationSound, ReuseDetected, RevokedForCause, Reuse
<1>6. Line'
  BY <1>3 DEF IInv, TypeOK, Line, Reuse, Present
<1>7. Alone'
  BY DEF IInv, TypeOK, Alone, Reuse
<1> QED BY <1>4, <1>5, <1>6, <1>7 DEF IInv

\* An answer arrives or is lost, or a client asks.
LEMMA AnswerLemma ==
  ASSUME RotationParameters, IInv, NEW c \in Client,
         \/ Ask(c)
         \/ \E f \in Family, t \in Token : Receive(c, f, t) \/ LoseAnswer(c, f, t)
  PROVE  IInv'
<1> USE DEF Token, Keeps, RotationParameters
<1>1. CASE Ask(c)
  <2>1. TypeOK' /\ OneToken'
    BY <1>1 DEF IInv, TypeOK, OneToken, Ask
  <2>2. RotationSound'
    BY <1>1 DEF IInv, RotationSound, ReuseDetected, RevokedForCause, Ask
  <2>3. Line'
    BY <1>1 DEF IInv, TypeOK, Line, Ask
  <2>4. Alone'
    BY <1>1 DEF IInv, TypeOK, Alone, Ask
  <2> QED BY <2>1, <2>2, <2>3, <2>4 DEF IInv
<1>2. ASSUME NEW f \in Family, NEW t \in Token, Receive(c, f, t) PROVE IInv'
  <2>1. fresh[c] \in 1..current[f] /\ fresh[c] \in Token
    BY <1>2 DEF IInv, TypeOK, Line, Receive
  <2>2. TypeOK' /\ OneToken'
    BY <1>2, <2>1 DEF IInv, TypeOK, OneToken, Receive
  <2>3. RotationSound'
    BY <1>2 DEF IInv, RotationSound, ReuseDetected, RevokedForCause, Receive
  <2>4. Line'
    BY <1>2, <2>1 DEF IInv, TypeOK, Line, Receive
  <2>5. Alone'
    BY <1>2, <2>1 DEF IInv, TypeOK, Alone, Receive
  <2> QED BY <2>2, <2>3, <2>4, <2>5 DEF IInv
<1>3. ASSUME NEW f \in Family, NEW t \in Token, LoseAnswer(c, f, t) PROVE IInv'
  <2>1. TypeOK' /\ OneToken'
    BY <1>3 DEF IInv, TypeOK, OneToken, LoseAnswer
  <2>2. RotationSound'
    BY <1>3 DEF IInv, RotationSound, ReuseDetected, RevokedForCause, LoseAnswer
  <2>3. Line'
    BY <1>3 DEF IInv, TypeOK, Line, LoseAnswer
  <2>4. Alone'
    BY <1>3 DEF IInv, TypeOK, OneToken, Alone, LoseAnswer
  <2> QED BY <2>1, <2>2, <2>3, <2>4 DEF IInv
<1> QED BY <1>1, <1>2, <1>3

\* A token that is shared is a mishap of its family.
LEMMA ShareLemma ==
  ASSUME RotationParameters, IInv, NEW c \in Client, NEW d \in Client, Share(c, d)
  PROVE  IInv'
<1> USE DEF Token, Keeps
<1>1. PICK k \in held[c] : held[c] = {k} /\ k.family \in Family /\ k.token \in Token
  BY DEF IInv, TypeOK, OneToken, Share
<1>2. mishaps' = mishaps \cup {k.family}
  BY <1>1 DEF Share
<1>3. TypeOK' /\ OneToken' /\ RotationSound'
  BY <1>1, <1>2 DEF IInv, TypeOK, OneToken, RotationSound, ReuseDetected,
                    RevokedForCause, Share
<1>4. Line'
  <2>1. ASSUME NEW f \in Family, NEW e \in Client, NEW t \in Token, Keeps(e, f, t)'
        PROVE  t <= current[f] /\ (call[e] = "answered" => fresh[e] \in 1..current[f])
    <3>1. CASE e = d
      <4>1. Keeps(c, f, t) /\ call[d] = "none"
        BY <2>1, <3>1 DEF IInv, TypeOK, OneToken, Share
      <4> QED BY <3>1, <4>1 DEF IInv, Line
    <3>2. CASE e # d
      BY <2>1, <3>2 DEF IInv, TypeOK, Line, Share
    <3> QED BY <3>1, <3>2
  <2> QED BY <2>1 DEF IInv, Line, Share
<1>5. Alone'
  BY <1>1, <1>2 DEF IInv, TypeOK, Alone, Share
<1> QED BY <1>3, <1>4, <1>5 DEF IInv

\* For any clients, families and number of tokens: a family is revoked exactly when
\* one of its tokens was presented twice, and never while every answer arrived and
\* nobody shared a token.
THEOREM RotationSoundHolds ==
  ASSUME RotationParameters
  PROVE  Spec => [](TypeOK /\ RotationSound)
<1>1. Init => IInv
  BY InitLemma
<1>2. IInv /\ [Next]_vars => IInv'
  <2> SUFFICES ASSUME IInv, [Next]_vars PROVE IInv'
    OBVIOUS
  <2>1. CASE Next
    BY <2>1, CreateLemma, RotateLemma, ReuseLemma, AnswerLemma, ShareLemma DEF Next
  <2>2. CASE UNCHANGED vars
    BY <2>2 DEF IInv, TypeOK, Line, OneToken, Alone, Keeps, RotationSound, ReuseDetected,
                RevokedForCause, vars
  <2> QED BY <2>1, <2>2
<1>3. IInv => TypeOK /\ RotationSound
  BY DEF IInv
<1> QED BY <1>1, <1>2, <1>3, PTL DEF Spec

=============================================================================
