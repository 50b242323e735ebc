--------------------------- MODULE GroupAdmin_proofs ---------------------------
(***************************************************************************)
(* A command is refused only with cause, for any number of calls, changes  *)
(* and faults.  The argument is a call's own, but for one fact about the   *)
(* cache: a typed command forces its check, so it asks by operation and    *)
(* not by the cache (Forced); the operation's answer goes before the       *)
(* metadata and, where it says no, said so after the message had come      *)
(* (Asked).  A spoken one comes by the cache only with a row that says     *)
(* yes; a no it finds there as an operation's is one (CacheIsTrue).  What  *)
(* is handed on as the operation's answer is one of these (Answered).      *)
(***************************************************************************)
EXTENDS GroupAdmin, TLAPS

(* What each call has learned, as a predicate of the call alone and of the   *)
(* truth; cause is what makes a refusal right.                               *)
Cause(c) == ~c.held \/ c.doubted \/ (c.voice # "none" /\ c.overheard)
OwnHolding(c, admin) == c.held => admin /\ c.kind \in Commands
Forced(c) == c.pc = "ensure" => c.probe = "none" /\ (c.force \/ (c.voice # "none" /\ c.admin))
Kept(c) == c.pc = "metadata" /\ c.probe = "none" => c.status # "no"
Asked(c) ==
  c.pc = "metadata" =>
    /\ c.probe = "none" => c.voice # "none" /\ c.admin
    /\ c.probe = "no" => ~c.held
    /\ c.probe = "unknown" => ~c.held \/ c.doubted
AnsweredNo(c) ==
  c.source = "operation" /\
    \/ c.pc = "persist" /\ c.status # "yes" /\ (c.status = "unknown" => ~c.admin)
    \/ c.pc \in {"core", "access"} /\ ~c.admin
Answered(c) == AnsweredNo(c) => Cause(c)
Refused(c) == c.pc = "refused" => Cause(c) /\ c.voice # "audio"

Justified(c, admin) ==
  /\ OwnHolding(c, admin)
  /\ c.kind \in Commands => Forced(c) /\ Asked(c) /\ Answered(c)
  /\ Kept(c) /\ Refused(c)

CacheIsTrue == cache.source = "operation" /\ cache.admin = "no" => cache.denied

Inv == TypeOK /\ CacheIsTrue /\ \A h \in Handlers : Justified(handler[h], isAdmin)

(* The invariant says what RefusedWithCause says.                            *)
LEMMA InvImplies == ASSUME Inv PROVE RefusedWithCause
  BY DEF Inv, TypeOK, Calls, Voices, Justified, Refused, Cause, RefusedWithCause, At

LEMMA IdleIsCall == Idle \in Calls /\ Justified(Idle, isAdmin)
<1>1. (CHOOSE n \in Names : TRUE) \in Names
  BY GroupAdminAssumption DEF GroupAdminAssumption
<1>2. Idle \in Calls
  BY <1>1 DEF Idle, Calls, Pcs, Answers, Sources, Voices
<1> QED
  BY <1>2 DEF Idle, Justified, OwnHolding, Forced, Kept, Asked, Answered, AnsweredNo, Refused, Cause

LEMMA InitInv == Init => Inv
<1> SUFFICES ASSUME Init PROVE Inv
  OBVIOUS
<1>1. Idle.name \in Names
  BY IdleIsCall DEF Calls
<1>2. TypeOK
  BY <1>1, IdleIsCall, GroupAdminAssumption
  DEF Init, TypeOK, Answers, Sources, Entries, GroupAdminAssumption
<1> QED
  BY <1>2, IdleIsCall DEF Init, Inv, CacheIsTrue

(* One call moves, the others and the truth stay.                            *)
LEMMA OneCall ==
  ASSUME Inv, NEW h \in Handlers, NEW d \in Calls, Justified(d, isAdmin),
         handler' = [handler EXCEPT ![h] = d], isAdmin' = isAdmin
  PROVE  /\ handler' \in [Handlers -> Calls]
         /\ \A k \in Handlers : Justified(handler'[k], isAdmin')
BY DEF Inv, TypeOK

LEMMA ArriveKeeps ==
  ASSUME Inv, NEW h \in Handlers, NEW kind \in Kinds, Arrive(h, kind)
  PROVE  Inv'
<1>1. PICK text \in Names, voice \in Voices, force \in BOOLEAN, held \in BOOLEAN :
        /\ force = (kind # "members" /\ ForceCheck(kind, voice))
        /\ held = (isAdmin /\ kind \in Commands)
        /\ handler' = [handler EXCEPT ![h] =
             [Idle EXCEPT !.kind = kind, !.pc = IF kind = "members" THEN "join" ELSE "ensure",
                          !.name = group.name, !.admin = group.admin, !.text = text,
                          !.voice = voice, !.force = force, !.held = held]]
  <2>1. PICK text \in IF kind = "name" THEN Names ELSE {Idle.text},
             voice \in IF kind \in Spoken THEN {"none", "audio"} ELSE {"none"} :
        handler' = [handler EXCEPT ![h] =
          [Idle EXCEPT !.kind = kind, !.pc = IF kind = "members" THEN "join" ELSE "ensure",
                       !.name = group.name, !.admin = group.admin, !.text = text,
                       !.voice = voice,
                       !.force = kind # "members" /\ ForceCheck(kind, voice),
                       !.held = isAdmin /\ kind \in Commands]]
    BY DEF Arrive
  <2>2. text \in Names /\ voice \in Voices
    BY IdleIsCall DEF Calls, Voices
  <2> QED
    BY <2>1, <2>2
<1>2. PICK d :
        d = [Idle EXCEPT !.kind = kind, !.pc = IF kind = "members" THEN "join" ELSE "ensure",
                         !.name = group.name, !.admin = group.admin, !.text = text,
                         !.voice = voice, !.force = force, !.held = held]
  OBVIOUS
<1>3. d \in Calls
  <2>1. group.name \in Names /\ group.admin \in BOOLEAN
    BY DEF Inv, TypeOK
  <2>2. (IF kind = "members" THEN "join" ELSE "ensure") \in Pcs
    BY DEF Pcs
  <2> QED
    BY <1>2, <2>1, <2>2, IdleIsCall DEF Calls
<1>4. Justified(d, isAdmin)
  <2>1. group.admin \in BOOLEAN /\ group.checked \in BOOLEAN
    BY DEF Inv, TypeOK
  <2>2. kind \in Commands => force \/ (voice # "none" /\ group.admin)
    BY <1>1, <2>1 DEF ForceCheck, Commands
  <2>3. d.pc # "metadata" /\ d.pc # "refused" /\ d.source = "none" /\ d.probe = "none"
    BY <1>2, IdleIsCall DEF Idle, Calls
  <2>4. d.kind = kind /\ d.held = held /\ d.force = force /\ d.voice = voice /\ d.admin = group.admin
    BY <1>2, IdleIsCall DEF Calls
  <2> QED
    BY <1>1, <2>2, <2>3, <2>4
    DEF Justified, OwnHolding, Forced, Kept, Asked, Answered, AnsweredNo, Refused
<1>5. TypeOK /\ UNCHANGED <<isAdmin, subject, group, cache, socket, changes, faults>>
  BY DEF Inv, Arrive
<1> QED
  BY <1>1, <1>2, <1>3, <1>4, <1>5, OneCall DEF Inv, TypeOK, CacheIsTrue

(* A call that ends is idle.                                                 *)
LEMMA EndKeeps ==
  ASSUME Inv, NEW h \in Handlers, End(h), isAdmin' = isAdmin
  PROVE  handler' \in [Handlers -> Calls] /\ \A k \in Handlers : Justified(handler'[k], isAdmin')
BY IdleIsCall, OneCall DEF End

(* What is handed on as the operation's answer is yes, or there is cause.    *)
LEMMA ToldKeeps ==
  ASSUME Inv, NEW h \in Handlers, NEW status \in Answers, NEW source \in Sources,
         NEW overheard \in BOOLEAN, Told(h, status, source, overheard), isAdmin' = isAdmin,
         handler[h].kind \in Commands /\ source = "operation" /\ status # "yes" =>
           \/ status = "unknown" /\ handler[h].admin
           \/ ~handler[h].held \/ handler[h].doubted
           \/ handler[h].voice # "none" /\ overheard
  PROVE  handler' \in [Handlers -> Calls] /\ \A k \in Handlers : Justified(handler'[k], isAdmin')
<1> DEFINE admin == IF status = "unknown" \/ handler[h].kind = "bot_and_members"
                    THEN handler[h].admin ELSE FALSE
           heard == overheard /\ handler[h].held
           d == [handler[h] EXCEPT !.pc = "persist", !.probe = "none", !.status = status,
                                  !.source = source, !.force = FALSE, !.overheard = heard,
                                  !.admin = admin]
<1>1. handler' = [handler EXCEPT ![h] = d]
  BY DEF Told, Inv, TypeOK, Calls
<1>2. handler[h] \in Calls /\ Justified(handler[h], isAdmin)
  BY DEF Inv, TypeOK
<1>3. d \in Calls
  <2>1. admin \in BOOLEAN /\ heard \in BOOLEAN
    BY <1>2 DEF Calls
  <2> HIDE DEF admin, heard
  <2> QED
    BY <1>2, <2>1 DEF Calls, Pcs
<1>4. Justified(d, isAdmin)
  <2>1. d.pc = "persist" /\ d.kind = handler[h].kind /\ d.held = handler[h].held
          /\ d.doubted = handler[h].doubted /\ d.voice = handler[h].voice
    BY <1>2 DEF Calls
  <2>2. d.source = source /\ d.status = status /\ d.overheard = heard /\ d.admin = admin
    BY <1>2 DEF Calls
  <2>3. OwnHolding(d, isAdmin)
    BY <1>2, <2>1 DEF Justified, OwnHolding
  <2>4. Forced(d) /\ Asked(d) /\ Kept(d) /\ Refused(d)
    BY <2>1 DEF Forced, Asked, Kept, Refused
  <2>5. d.kind \in Commands => Answered(d)
    BY <2>1, <2>2 DEF Answered, AnsweredNo, Cause
  <2> QED
    BY <2>3, <2>4, <2>5 DEF Justified
<1> QED
  BY <1>1, <1>3, <1>4, OneCall

(* A typed command never comes here, a spoken one with a row that says yes.  *)
LEMMA CacheHitKeeps == ASSUME Inv, NEW h \in Handlers, CacheHit(h) PROVE Inv'
<1>1. handler[h].kind \in Commands => handler[h].voice # "none" /\ handler[h].admin
  BY DEF CacheHit, At, Inv, Justified, Forced
<1>2. cache.admin \in Answers /\ cache.source \in Sources /\ cache.denied \in BOOLEAN
  BY DEF Inv, TypeOK, Entries
<1>3. cache.source = "operation" /\ cache.admin = "no" => cache.denied
  BY DEF Inv, CacheIsTrue
<1>4. handler[h].kind \in Commands /\ cache.source = "operation" /\ cache.admin # "yes" =>
        \/ cache.admin = "unknown" /\ handler[h].admin
        \/ handler[h].voice # "none" /\ cache.denied
  BY <1>1, <1>2, <1>3 DEF Answers
<1>5. handler' \in [Handlers -> Calls] /\ \A k \in Handlers : Justified(handler'[k], isAdmin')
  BY <1>2, <1>4, ToldKeeps DEF CacheHit
<1> QED
  BY <1>5 DEF CacheHit, Inv, TypeOK, CacheIsTrue

LEMMA NoSocketKeeps == ASSUME Inv, NEW h \in Handlers, NoSocket(h) PROVE Inv'
<1>1. cache.admin \in Answers /\ "fallback" \in Sources
  BY DEF Inv, TypeOK, Sources, Entries
<1>2. handler' \in [Handlers -> Calls] /\ \A k \in Handlers : Justified(handler'[k], isAdmin')
  BY <1>1, ToldKeeps DEF NoSocket
<1> QED
  BY <1>1, <1>2 DEF NoSocket, Inv, TypeOK, Entries, CacheIsTrue

(* A typed command's check is forced, so it begins with the operation.       *)
LEMMA StartCheckKeeps == ASSUME Inv, NEW h \in Handlers, StartCheck(h) PROVE Inv'
<1> DEFINE surely == \/ handler[h].force \/ cache.source \in {"none", "fallback"}
                     \/ cache.admin = "no"
           d == [handler[h] EXCEPT !.pc = IF surely THEN "probe" ELSE "metadata",
                                  !.force = FALSE, !.status = cache.admin,
                                  !.source = IF surely THEN "none" ELSE cache.source]
<1>1. handler' = [handler EXCEPT ![h] = d]
  BY DEF StartCheck, Inv, TypeOK, Calls
<1>2. handler[h] \in Calls /\ Justified(handler[h], isAdmin) /\ cache.admin \in Answers
  BY DEF Inv, TypeOK, Entries
<1>3. d \in Calls
  <2>1. (IF surely THEN "probe" ELSE "metadata") \in Pcs
    BY DEF Pcs
  <2>2. (IF surely THEN "none" ELSE cache.source) \in Sources
    BY DEF Inv, TypeOK, Sources, Entries
  <2> HIDE DEF surely
  <2> QED
    BY <1>2, <2>1, <2>2 DEF Calls
<1>4. Justified(d, isAdmin)
  <2>1. d.kind = handler[h].kind /\ d.held = handler[h].held /\ d.probe = handler[h].probe
          /\ d.voice = handler[h].voice /\ d.admin = handler[h].admin /\ d.status = cache.admin
    BY <1>2 DEF Calls
  <2>2. d.pc = IF surely THEN "probe" ELSE "metadata"
    BY <1>2 DEF Calls
  <2>3. handler[h].pc = "ensure"
    BY DEF StartCheck, Asking, At
  <2>4. OwnHolding(d, isAdmin)
    BY <1>2, <2>1 DEF Justified, OwnHolding
  <2>5. Forced(d) /\ Answered(d) /\ Refused(d)
    BY <2>2 DEF Forced, Answered, AnsweredNo, Refused
  <2>6. Kept(d)
    BY <2>1, <2>2 DEF Kept
  <2>7. d.kind \in Commands => Asked(d)
    <3>1. handler[h].kind \in Commands => handler[h].probe = "none" /\
            (handler[h].force \/ (handler[h].voice # "none" /\ handler[h].admin))
      BY <1>2, <2>3 DEF Justified, Forced
    <3> QED
      BY <2>1, <2>2, <3>1 DEF Asked
  <2> HIDE DEF d
  <2> QED
    BY <2>4, <2>5, <2>6, <2>7 DEF Justified
<1> QED
  BY <1>1, <1>3, <1>4, OneCall DEF StartCheck, Inv, TypeOK, CacheIsTrue

(* The operation's no means that the bot is no administrator at this moment. *)
LEMMA ProbeKeeps == ASSUME Inv, NEW h \in Handlers, Probe(h) PROVE Inv'
<1>1. handler[h] \in Calls /\ Justified(handler[h], isAdmin) /\ isAdmin \in BOOLEAN
  BY DEF Inv, TypeOK
<1>2. faults' \in 0..MaxFaults /\ UNCHANGED <<isAdmin, subject, group, cache, socket, changes>>
  BY GroupAdminAssumption DEF Probe, Failing, OneFault, Inv, TypeOK, GroupAdminAssumption
<1>3. ASSUME handler' = [handler EXCEPT ![h].pc = "metadata", ![h].probe = Answer(isAdmin),
                                        ![h].status = "unknown"]
      PROVE  Inv'
  <2> DEFINE d == [handler[h] EXCEPT !.pc = "metadata", !.probe = Answer(isAdmin),
                                    !.status = "unknown"]
  <2>1. handler' = [handler EXCEPT ![h] = d]
    BY <1>3 DEF Inv, TypeOK, Calls
  <2>2. d \in Calls
    BY <1>1 DEF Calls, Pcs, Answers, Answer
  <2>3. Justified(d, isAdmin)
    BY <1>1
    DEF Calls, Pcs, Commands, Justified, OwnHolding, Forced, Kept, Asked, Answered, AnsweredNo,
      Refused, Cause, Answer
  <2> QED
    BY <1>2, <2>1, <2>2, <2>3, OneCall DEF Inv, TypeOK, CacheIsTrue
<1>4. ASSUME handler' = [handler EXCEPT ![h].pc = "metadata", ![h].probe = "unknown",
                                        ![h].doubted = handler[h].held]
      PROVE  Inv'
  <2> DEFINE d == [handler[h] EXCEPT !.pc = "metadata", !.probe = "unknown",
                                    !.doubted = handler[h].held]
  <2>2. handler' = [handler EXCEPT ![h] = d]
    BY <1>4 DEF Inv, TypeOK, Calls
  <2>3. d \in Calls
    BY <1>1 DEF Calls, Pcs, Answers
  <2>4. Justified(d, isAdmin)
    BY <1>1
    DEF Calls, Pcs, Commands, Justified, OwnHolding, Forced, Kept, Asked, Answered, AnsweredNo,
      Refused, Cause
  <2> QED
    BY <1>2, <2>2, <2>3, <2>4, OneCall DEF Inv, TypeOK, CacheIsTrue
<1> QED
  BY <1>3, <1>4 DEF Probe

LEMMA MetadataKeeps == ASSUME Inv, NEW h \in Handlers, Metadata(h) PROVE Inv'
<1>1. PICK shown \in BOOLEAN : cache' = NewStatus(h, shown)
  BY DEF Metadata
<1>2. handler[h] \in Calls /\ Justified(handler[h], isAdmin) /\ isAdmin \in BOOLEAN
  BY DEF Inv, TypeOK
<1>3. Status(h, shown) \in Answers
  BY <1>2 DEF Status, Answer, Answers, Calls
<1>4. cache' \in Entries
  <2>1. (handler[h].probe \in {"no", "unknown"} /\ Status(h, shown) = "no") \in BOOLEAN
    OBVIOUS
  <2> QED
    BY <1>1, <1>2, <1>3, <2>1 DEF NewStatus, Sources, Calls, Entries
<1>5. CacheIsTrue'
  BY <1>1, <1>2
  DEF Justified, Kept, Metadata, At, NewStatus, Status, CacheIsTrue, Calls, Answers
<1>6. handler[h].kind \in Commands /\ cache'.source = "operation" /\ cache'.admin # "yes" =>
        \/ cache'.admin = "unknown" /\ handler[h].admin
        \/ ~handler[h].held \/ handler[h].doubted
  BY <1>1, <1>2
  DEF Calls, Answers, Justified, Asked, Kept, Metadata, At, NewStatus, Status
<1>7. handler' \in [Handlers -> Calls] /\ \A k \in Handlers : Justified(handler'[k], isAdmin')
  BY <1>4, <1>6, ToldKeeps DEF Metadata, Entries
<1>8. faults' \in 0..MaxFaults
  BY GroupAdminAssumption
  DEF Metadata, Failing, OneFault, Inv, TypeOK, GroupAdminAssumption
<1> QED
  BY <1>4, <1>5, <1>7, <1>8 DEF Metadata, Inv, TypeOK

(* Writing the row changes no call.                                          *)
LEMMA RowIsTyped ==
  ASSUME Inv, NEW name \in Names, NEW admin \in BOOLEAN, GetGroupAccess(name, admin)
  PROVE  group' \in [name : Names, open : BOOLEAN, admin : BOOLEAN, checked : BOOLEAN]
BY DEF GetGroupAccess, Inv, TypeOK, CacheIsTrue

LEMMA PersistKeeps == ASSUME Inv, NEW h \in Handlers, Persist(h) PROVE Inv'
<1>1. handler[h] \in Calls /\ Justified(handler[h], isAdmin) /\ handler[h].pc = "persist"
  BY DEF Inv, TypeOK, Persist, At
<1>2. group' \in [name : Names, open : BOOLEAN, admin : BOOLEAN, checked : BOOLEAN]
  <2>1. handler[h].name \in Names /\ (handler[h].status = "yes") \in BOOLEAN
    BY <1>1 DEF Calls
  <2>2. CASE handler[h].source \in {"live", "operation"} /\ handler[h].status # "unknown"
    BY <2>1, <2>2, RowIsTyped DEF Persist
  <2>3. CASE ~(handler[h].source \in {"live", "operation"} /\ handler[h].status # "unknown")
    BY <2>3 DEF Persist, Inv, TypeOK
  <2> QED
    BY <2>2, <2>3
<1>3. UNCHANGED <<isAdmin, subject, cache, socket, changes, faults>>
  BY DEF Persist
<1>4. ASSUME handler' \in [Handlers -> Calls], \A k \in Handlers : Justified(handler'[k], isAdmin')
      PROVE  Inv'
  BY <1>2, <1>3, <1>4 DEF Inv, TypeOK, CacheIsTrue
<1>5. CASE handler[h].kind = "bot"
  BY <1>3, <1>4, <1>5, EndKeeps DEF Persist
<1>6. CASE handler[h].kind = "bot_and_members"
  <2> DEFINE d == [handler[h] EXCEPT !.pc = "join", !.status = "unknown", !.source = "none"]
  <2>1. handler' = [handler EXCEPT ![h] = d]
    BY <1>6 DEF Persist, Inv, TypeOK, Calls
  <2>2. d \in Calls
    BY <1>1 DEF Calls, Pcs, Answers, Sources
  <2>3. Justified(d, isAdmin)
    BY <1>1, <1>6
    DEF Calls, Pcs, Commands, Justified, OwnHolding, Forced, Kept, Asked, Answered, AnsweredNo,
      Refused, Cause
  <2> QED
    BY <1>3, <1>4, <2>1, <2>2, <2>3, OneCall
<1>7. CASE handler[h].kind \notin {"bot", "bot_and_members"}
  <2> DEFINE source == IF handler[h].source = "operation" THEN "operation" ELSE "none"
             d == [handler[h] EXCEPT !.pc = "core", !.admin = EventAdmin(h),
                                    !.status = "unknown", !.source = source]
  <2>1. handler' = [handler EXCEPT ![h] = d]
    <3>1. handler' = [handler EXCEPT ![h].pc = "core", ![h].admin = EventAdmin(h),
                                    ![h].status = "unknown",
                                    ![h].source = IF @ = "operation" THEN @ ELSE "none"]
      BY <1>7 DEF Persist
    <3> QED
      BY <3>1, <1>1 DEF Inv, TypeOK, Calls
  <2>2. EventAdmin(h) \in BOOLEAN /\ source \in Sources
    BY <1>1 DEF EventAdmin, Calls, Sources
  <2>3. d \in Calls
    <3> HIDE DEF source
    <3> QED
      BY <1>1, <2>2 DEF Calls, Pcs, Answers
  <2>4. Justified(d, isAdmin)
    BY <1>1
    DEF Calls, Pcs, Commands, Justified, OwnHolding, Forced, Kept, Asked, Answered, AnsweredNo,
      Refused, Cause, EventAdmin
  <2> QED
    BY <1>3, <1>4, <2>1, <2>3, <2>4, OneCall
<1> QED
  BY <1>5, <1>6, <1>7

LEMMA JoinKeeps == ASSUME Inv, NEW h \in Handlers, Join(h) PROVE Inv'
<1>1. group' \in [name : Names, open : BOOLEAN, admin : BOOLEAN, checked : BOOLEAN]
  BY RowIsTyped DEF Join, Inv, TypeOK, Calls
<1>2. handler' \in [Handlers -> Calls] /\ \A k \in Handlers : Justified(handler'[k], isAdmin')
  BY EndKeeps DEF Join
<1> QED
  BY <1>1, <1>2 DEF Join, Inv, TypeOK, CacheIsTrue

(* The ends that write nothing.                                              *)
LEMMA EndingKeeps ==
  ASSUME Inv, NEW h \in Handlers, Blocked(h) \/ Refuse(h) \/ Fail(h)
  PROVE  Inv'
<1>1. handler' \in [Handlers -> Calls] /\ \A k \in Handlers : Justified(handler'[k], isAdmin')
  BY EndKeeps DEF Blocked, Refuse, Fail
<1>2. faults' \in 0..MaxFaults
  BY GroupAdminAssumption
  DEF Blocked, Refuse, Fail, OneFault, Inv, TypeOK, GroupAdminAssumption
<1> QED
  BY <1>1, <1>2 DEF Blocked, Refuse, Fail, Inv, TypeOK, CacheIsTrue

LEMMA ReadIdentityKeeps == ASSUME Inv, NEW h \in Handlers, ReadIdentity(h) PROVE Inv'
<1> DEFINE d == [handler[h] EXCEPT !.pc = "access", !.identity = group.name]
<1>1. handler' = [handler EXCEPT ![h] = d]
  BY DEF ReadIdentity, Inv, TypeOK, Calls
<1>2. handler[h] \in Calls /\ Justified(handler[h], isAdmin) /\ group.name \in Names
  BY DEF Inv, TypeOK, CacheIsTrue
<1>3. d \in Calls
  BY <1>2 DEF Calls, Pcs
<1>4. Justified(d, isAdmin)
  BY <1>2
  DEF Calls, Pcs, Commands, Justified, OwnHolding, Forced, Kept, Asked, Answered, AnsweredNo,
      Refused, Cause, ReadIdentity, At
<1> QED
  BY <1>1, <1>3, <1>4, OneCall DEF ReadIdentity, Inv, TypeOK, CacheIsTrue

(* The guard refuses by an answer of the operation, and by nothing else.     *)
LEMMA AccessKeeps == ASSUME Inv, NEW h \in Handlers, Access(h) PROVE Inv'
<1>1. handler[h] \in Calls /\ Justified(handler[h], isAdmin) /\ handler[h].pc = "access"
  BY DEF Inv, TypeOK, Access, At
<1>2. group' \in [name : Names, open : BOOLEAN, admin : BOOLEAN, checked : BOOLEAN]
  BY <1>1, RowIsTyped DEF Access, Calls
<1>3. UNCHANGED <<isAdmin, subject, cache, socket, changes, faults>>
  BY DEF Access
<1>4. CASE End(h)
  BY <1>2, <1>3, <1>4, EndKeeps DEF Inv, TypeOK, CacheIsTrue
<1>5. ASSUME handler[h].voice = "audio", Dispatch(h) PROVE Inv'
  <2> DEFINE d == [handler[h] EXCEPT !.pc = "core", !.voice = "transcript"]
  <2>1. handler' = [handler EXCEPT ![h] = d]
    BY <1>5 DEF Dispatch, Inv, TypeOK, Calls
  <2>2. d \in Calls
    BY <1>1 DEF Calls, Pcs, Voices
  <2>3. Justified(d, isAdmin)
    BY <1>1, <1>5
    DEF Calls, Pcs, Commands, Justified, OwnHolding, Forced, Kept, Asked, Answered, AnsweredNo,
      Refused, Cause
  <2> QED
    BY <1>2, <1>3, <2>1, <2>2, <2>3, OneCall DEF Inv, TypeOK, CacheIsTrue
<1>6. ASSUME handler[h].kind \in Commands, handler[h].voice # "audio", Guard(h) PROVE Inv'
  <2>1. CASE Denied(h)
    <3> DEFINE d == [handler[h] EXCEPT !.pc = "refused", !.source = "none"]
    <3>1. handler' = [handler EXCEPT ![h] = d]
      BY <1>6, <2>1 DEF Guard, Inv, TypeOK, Calls
    <3>2. d \in Calls
      BY <1>1 DEF Calls, Pcs, Sources
    <3>3. Justified(d, isAdmin)
      BY <1>1, <1>6, <2>1
      DEF Calls, Pcs, Commands, Justified, OwnHolding, Forced, Kept, Asked, Answered, AnsweredNo,
        Refused, Cause, Denied
    <3> QED
      BY <1>2, <1>3, <3>1, <3>2, <3>3, OneCall DEF Inv, TypeOK, CacheIsTrue
  <2>2. CASE ~Denied(h)
    <3> DEFINE d == [Idle EXCEPT !.kind = handler[h].kind, !.pc = "operate",
                                !.name = handler[h].name, !.text = handler[h].text]
    <3>1. handler' = [handler EXCEPT ![h] = d]
      BY <1>6, <2>2 DEF Guard
    <3>2. d \in Calls
      BY <1>1, IdleIsCall DEF Calls, Pcs
    <3>3. d.pc = "operate" /\ d.held = FALSE
      BY IdleIsCall DEF Idle, Calls
    <3>4. Justified(d, isAdmin)
      BY <3>3
      DEF Justified, OwnHolding, Forced, Kept, Asked, Answered, AnsweredNo, Refused
    <3> QED
      BY <1>2, <1>3, <3>1, <3>2, <3>4, OneCall DEF Inv, TypeOK, CacheIsTrue
  <2> QED
    BY <2>1, <2>2
<1> QED
  BY <1>4, <1>5, <1>6 DEF Access

LEMMA DoneIsTyped ==
  ASSUME Inv, NEW h \in Handlers, Done(h)
  PROVE  subject' \in [name : Names, open : BOOLEAN]
<1>1. handler[h].text \in Names
  BY DEF Inv, TypeOK, Calls
<1> QED
  BY <1>1 DEF Done, Inv, TypeOK, CacheIsTrue

LEMMA OperateKeeps == ASSUME Inv, NEW h \in Handlers, Operate(h) PROVE Inv'
<1>1. handler[h] \in Calls /\ Justified(handler[h], isAdmin)
  BY DEF Inv, TypeOK, CacheIsTrue
<1>2. UNCHANGED <<isAdmin, group, cache, socket, changes>>
  BY DEF Operate
<1>3. subject' \in [name : Names, open : BOOLEAN]
  BY DoneIsTyped DEF Operate, Inv, TypeOK, CacheIsTrue
<1>4. faults' \in 0..MaxFaults
  BY GroupAdminAssumption
  DEF Operate, Failing, OneFault, Inv, TypeOK, GroupAdminAssumption
<1>5. CASE End(h)
  BY <1>2, <1>3, <1>4, <1>5, EndKeeps DEF Inv, TypeOK, CacheIsTrue
<1>6. ASSUME NEW pc \in {"infer", "settings"}, NEW result \in Answers,
             handler' = [handler EXCEPT ![h].pc = pc, ![h].result = result]
      PROVE  Inv'
  <2> DEFINE d == [handler[h] EXCEPT !.pc = pc, !.result = result]
  <2>1. handler' = [handler EXCEPT ![h] = d]
    BY <1>6 DEF Inv, TypeOK, Calls
  <2>2. d \in Calls
    BY <1>1 DEF Calls, Pcs
  <2>3. Justified(d, isAdmin)
    BY <1>1
    DEF Calls, Pcs, Commands, Justified, OwnHolding, Forced, Kept, Asked, Answered, AnsweredNo,
      Refused, Cause
  <2> QED
    BY <1>2, <1>3, <1>4, <2>1, <2>2, <2>3, OneCall DEF Inv, TypeOK, CacheIsTrue
<1>7. "yes" \in Answers /\ "no" \in Answers
  BY DEF Answers
<1> QED
  BY <1>5, <1>6, <1>7 DEF Operate

LEMMA UpdateSettingsKeeps == ASSUME Inv, NEW h \in Handlers, UpdateSettings(h) PROVE Inv'
<1> DEFINE d == [handler[h] EXCEPT !.pc = "infer"]
<1>1. handler[h] \in Calls /\ Justified(handler[h], isAdmin)
  BY DEF Inv, TypeOK, CacheIsTrue
<1>2. group' \in [name : Names, open : BOOLEAN, admin : BOOLEAN, checked : BOOLEAN]
  BY <1>1 DEF UpdateSettings, Inv, TypeOK, Calls
<1>3. handler' = [handler EXCEPT ![h] = d]
  BY DEF UpdateSettings, Go, Inv, TypeOK, Calls
<1>4. d \in Calls
  BY <1>1 DEF Calls, Pcs
<1>5. Justified(d, isAdmin)
  BY <1>1
  DEF Calls, Pcs, Commands, Justified, OwnHolding, Forced, Kept, Asked, Answered, AnsweredNo,
      Refused, Cause
<1> QED
  BY <1>2, <1>3, <1>4, <1>5, OneCall DEF UpdateSettings, Inv, TypeOK, CacheIsTrue

LEMMA InferKeeps == ASSUME Inv, NEW h \in Handlers, Infer(h) PROVE Inv'
<1>1. (handler[h].result = "yes") \in BOOLEAN /\ handler[h].name \in Names
  BY DEF Inv, TypeOK, Calls
<1>2. group' \in [name : Names, open : BOOLEAN, admin : BOOLEAN, checked : BOOLEAN]
  BY <1>1, RowIsTyped DEF Infer
<1>3. handler' \in [Handlers -> Calls] /\ \A k \in Handlers : Justified(handler'[k], isAdmin')
  BY EndKeeps DEF Infer
<1> QED
  BY <1>2, <1>3 DEF Infer, Inv, TypeOK, CacheIsTrue

(* The bot's promotion takes no ground away, its demotion gives each call    *)
(* one; connection and clock touch no call.                                  *)
LEMMA PromoteKeeps == ASSUME Inv, Promote PROVE Inv'
<1>1. \A k \in Handlers : Justified(handler[k], TRUE)
  BY DEF Inv, Justified, OwnHolding
<1>2. changes' \in 0..MaxChanges
  BY GroupAdminAssumption DEF Promote, Inv, TypeOK, GroupAdminAssumption
<1>3. TypeOK'
  BY <1>2 DEF Promote, Inv, TypeOK, CacheIsTrue
<1>4. \A k \in Handlers : Justified(handler'[k], isAdmin')
  BY <1>1 DEF Promote, Justified, OwnHolding
<1> QED
  BY <1>3, <1>4 DEF Promote, Inv, CacheIsTrue

LEMMA DemoteKeeps == ASSUME Inv, Demote PROVE Inv'
<1>1. ASSUME NEW k \in Handlers
      PROVE  handler'[k] \in Calls /\ Justified(handler'[k], FALSE)
  <2>1. handler[k] \in Calls /\ Justified(handler[k], isAdmin)
    BY DEF Inv, TypeOK, CacheIsTrue
  <2>2. handler'[k] = [handler[k] EXCEPT !.held = FALSE, !.doubted = FALSE, !.overheard = FALSE]
    BY DEF Demote
  <2>3. handler'[k] \in Calls
    BY <2>1, <2>2 DEF Calls
  <2>4. Cause(handler'[k]) /\ ~handler'[k].held
    BY <2>1, <2>2 DEF Calls, Cause
  <2>5. /\ handler'[k].kind = handler[k].kind /\ handler'[k].pc = handler[k].pc
        /\ handler'[k].voice = handler[k].voice /\ handler'[k].probe = handler[k].probe
        /\ handler'[k].status = handler[k].status /\ handler'[k].force = handler[k].force
        /\ handler'[k].admin = handler[k].admin
    BY <2>1, <2>2 DEF Calls
  <2> QED
    BY <2>1, <2>3, <2>4, <2>5
    DEF Justified, OwnHolding, Forced, Kept, Asked, Answered, Refused
<1>2. handler' \in [Handlers -> Calls]
  BY <1>1 DEF Demote
<1>3. changes' \in 0..MaxChanges
  <2>1. changes \in 0..MaxChanges /\ changes < MaxChanges /\ changes' = changes + 1
    BY DEF Demote, Inv, TypeOK
  <2> QED
    BY <2>1, GroupAdminAssumption
<1>4. TypeOK'
  BY <1>2, <1>3 DEF Demote, Inv, TypeOK, CacheIsTrue
<1>5. \A k \in Handlers : Justified(handler'[k], isAdmin')
  BY <1>1 DEF Demote, Justified, OwnHolding
<1> QED
  BY <1>4, <1>5 DEF Demote, Inv, CacheIsTrue

LEMMA ClockKeeps ==
  ASSUME Inv, Disconnect \/ Reconnect \/ CacheExpires \/ CheckAges
  PROVE  Inv'
<1>1. faults' \in 0..MaxFaults /\ UNCHANGED <<isAdmin, subject, handler, changes>>
  BY GroupAdminAssumption
  DEF Disconnect, Reconnect, CacheExpires, CheckAges, Inv, TypeOK, GroupAdminAssumption
<1>2. /\ socket' \in BOOLEAN
      /\ group' \in [name : Names, open : BOOLEAN, admin : BOOLEAN, checked : BOOLEAN]
      /\ cache' \in Entries /\ CacheIsTrue'
  BY DEF Disconnect, Reconnect, CacheExpires, CheckAges, Inv, TypeOK, CacheIsTrue, Entries
<1> QED
  BY <1>1, <1>2 DEF Inv, TypeOK, CacheIsTrue

LEMMA NextKeeps == Inv /\ [Next]_vars => Inv'
<1> SUFFICES ASSUME Inv, [Next]_vars PROVE Inv'
  OBVIOUS
<1>1. CASE UNCHANGED vars
  BY <1>1 DEF vars, Inv, TypeOK, CacheIsTrue
<1>2. ASSUME NEW h \in Handlers, Step(h) PROVE Inv'
  BY <1>2, CacheHitKeeps, NoSocketKeeps, StartCheckKeeps, ProbeKeeps, MetadataKeeps, PersistKeeps,
     JoinKeeps, EndingKeeps, ReadIdentityKeeps, AccessKeeps, OperateKeeps, UpdateSettingsKeeps,
     InferKeeps
  DEF Step
<1>3. ASSUME NEW h \in Handlers, NEW kind \in Kinds, Arrive(h, kind) PROVE Inv'
  BY <1>3, ArriveKeeps
<1> QED
  BY <1>1, <1>2, <1>3, PromoteKeeps, DemoteKeeps, ClockKeeps DEF Next

(* What the variables hold, whatever calls, changes and faults there are     *)
(* (bot-admin-status.ts, groups/repository.ts).                              *)
THEOREM TypeCorrect == Spec => []TypeOK
<1>1. Inv => TypeOK
  BY DEF Inv
<1> QED
  BY <1>1, InitInv, NextKeeps, PTL DEF Spec

(* A command is refused for want of the group's administration only if the   *)
(* bot was without it at some moment since the message came, or the          *)
(* command's own check failed (command-router-runtime.ts), or, spoken, it    *)
(* found an operation's no in the cache: nothing else that another call has  *)
(* cached, stored or been told refuses it.                                   *)
THEOREM RefusalHasCause == Spec => []RefusedWithCause
BY InitInv, NextKeeps, InvImplies, PTL DEF Spec

================================================================================
