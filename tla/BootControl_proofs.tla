------------------------ MODULE BootControl_proofs ------------------------
(***************************************************************************)
(* Theorems about BootControl, for every set of processes, every platform, *)
(* and every sane initial slot table.                                      *)
(***************************************************************************)
EXTENDS BootControlRegister, TLAPS

-----------------------------------------------------------------------------
(* The three changes of a slot table: their type, and what they do to the  *)
(* active flags.                                                           *)

LEMMA FreshSlotType == FreshSlot \in SlotData
BY MaxRetryAssumption DEF FreshSlot, SlotData

LEMMA TableOps ==
  ASSUME NEW t \in Tables, NEW s \in Slots
  PROVE  /\ Activated(t, s) \in Tables
         /\ Succeeded(t, s) \in Tables
         /\ Unbooted(t, s) \in Tables
<1>1. /\ t \in [Slots -> SlotData]
      /\ Other(s) \in Slots
  BY DEF Tables, Slots, Other
<1>2. \A d \in SlotData :
        /\ [d EXCEPT !.active = FALSE] \in SlotData
        /\ [d EXCEPT !.successful = TRUE] \in SlotData
        /\ [d EXCEPT !.unbootable = TRUE] \in SlotData
  BY DEF SlotData
<1>3. Activated(t, s) \in Tables
  BY <1>1, <1>2, FreshSlotType DEF Activated, Tables
<1>4. Succeeded(t, s) \in Tables
  BY <1>1, <1>2 DEF Succeeded, Tables
<1>5. Unbooted(t, s) \in Tables
  BY <1>1, <1>2 DEF Unbooted, Tables
<1> QED BY <1>3, <1>4, <1>5

LEMMA ActivatedOne ==
  ASSUME NEW t \in Tables, NEW s \in Slots
  PROVE  OneActiveIn(Activated(t, s))
<1>1. Activated(t, s)[s].active = TRUE
  BY DEF Activated, Tables, Slots, FreshSlot
<1>2. Activated(t, s)[Other(s)].active = FALSE
  <2>1. Other(s) \in Slots /\ Other(s) # s
    BY DEF Other, Slots
  <2>2. Activated(t, s)[Other(s)] = [t[Other(s)] EXCEPT !.active = FALSE]
    BY <2>1 DEF Activated, Tables
  <2>3. t[Other(s)] \in SlotData
    BY <2>1 DEF Tables
  <2> QED BY <2>2, <2>3 DEF SlotData
<1>3. {s, Other(s)} = {0, 1}
  BY DEF Other, Slots
<1> QED BY <1>1, <1>2, <1>3 DEF OneActiveIn, Other, Slots

LEMMA MarksKeepOne ==
  ASSUME NEW t \in Tables, NEW s \in Slots, OneActiveIn(t)
  PROVE  OneActiveIn(Succeeded(t, s)) /\ OneActiveIn(Unbooted(t, s))
<1>1. \A x \in Slots : Succeeded(t, s)[x].active = t[x].active
  BY DEF Tables, SlotData, Slots, Succeeded
<1>2. \A x \in Slots : Unbooted(t, s)[x].active = t[x].active
  BY DEF Tables, SlotData, Slots, Unbooted
<1>3. 0 \in Slots /\ 1 \in Slots
  BY DEF Slots
<1> QED BY <1>1, <1>2, <1>3 DEF OneActiveIn

LEMMA ZeroTableType == ZeroTable \in Tables
BY MaxRetryAssumption DEF ZeroTable, Tables, SlotData, Slots

CacheType == [init : BOOLEAN, valid : BOOLEAN, slots : Tables]

LEMMA LoadedType ==
  ASSUME TypeOK, NEW p \in Procs, NEW readable \in BOOLEAN
  PROVE  Loaded(p, readable) \in CacheType
BY ConfigAssumption, ZeroTableType DEF TypeOK, Loaded, CacheType

LEMMA FirstBankType == FirstBank \in Banks \cup {"idle"}
BY PlatformAssumption DEF FirstBank, Banks

-----------------------------------------------------------------------------
(* What the handlers' branches do to the typed state.                      *)

PcType == {"idle", "lun"} \cup GptSteps \cup Banks

LEMMA AnswerType ==
  ASSUME TypeOK, NEW p \in Procs, NEW r \in Replies, Answer(p, r)
  PROVE  (pc' \in [Procs -> PcType] /\ arg' \in [Procs -> Slots]
          /\ reply' \in [Procs -> Replies])
BY DEF TypeOK, Answer, PcType, Slots

LEMMA GoOnType ==
  ASSUME TypeOK, NEW p \in Procs, NEW s \in Slots, NEW l \in PcType, GoOn(p, s, l)
  PROVE  (pc' \in [Procs -> PcType] /\ arg' \in [Procs -> Slots]
          /\ reply' \in [Procs -> Replies])
BY DEF TypeOK, GoOn, PcType, Replies

LEMMA DevInfoBranchType ==
  ASSUME TypeOK, NEW p \in Procs, NEW s \in Slots, NEW c \in CacheType,
         NEW new \in Tables, NEW next \in {"idle", "lun"} \cup Banks,
         DevInfoBranch(p, s, c, new, next), UNCHANGED <<lun, fuses, cur>>
  PROVE  TypeOK'
<1>1. cache' \in [Procs -> CacheType]
  <2>1. [c EXCEPT !.slots = new] \in CacheType
    BY DEF CacheType
  <2> QED BY <2>1 DEF DevInfoBranch, TypeOK, CacheType
<1>2. devinfo' \in Tables /\ dirty' \in [Procs -> BOOLEAN]
  BY DEF DevInfoBranch, SyncOk, SyncFails, TypeOK
<1>3. /\ pc' \in [Procs -> PcType]
      /\ arg' \in [Procs -> Slots]
      /\ reply' \in [Procs -> Replies]
  <2>1. \/ Answer(p, "ok") \/ Answer(p, "error")
        \/ GoOn(p, s, next)
    BY DEF DevInfoBranch
  <2> QED BY <2>1, AnswerType, GoOnType DEF Replies, PcType
<1> QED BY <1>1, <1>2, <1>3 DEF TypeOK, DevInfoBranch, CacheType, PcType

LEMMA GptBranchType ==
  ASSUME TypeOK, NEW p \in Procs, NEW s \in Slots, NEW c \in CacheType,
         NEW new, gpt # Lost => new \in Tables, NEW next \in GptSteps,
         GptBranch(p, s, c, new, next), UNCHANGED <<lun, fuses, cur>>
  PROVE  TypeOK'
<1>1. /\ pc' \in [Procs -> PcType]
      /\ arg' \in [Procs -> Slots]
      /\ reply' \in [Procs -> Replies]
  BY GoOnType DEF Replies, GptBranch, PcType
<1>2. cache' \in [Procs -> CacheType] /\ ent' \in [Procs -> Tables]
  BY DEF GptBranch, TypeOK, CacheType
<1> QED BY <1>1, <1>2 DEF TypeOK, GptBranch, CacheType, PcType

LEMMA GptUnreadableType ==
  ASSUME TypeOK, NEW p \in Procs, NEW c \in CacheType,
         GptUnreadable(p, c, "error"), UNCHANGED <<lun, fuses, cur>>
  PROVE  TypeOK'
<1>1. /\ pc' \in [Procs -> PcType]
      /\ arg' \in [Procs -> Slots]
      /\ reply' \in [Procs -> Replies]
  BY AnswerType DEF Replies, GptUnreadable
<1>2. cache' \in [Procs -> CacheType]
  BY DEF GptUnreadable, TypeOK, CacheType
<1> QED BY <1>1, <1>2 DEF TypeOK, GptUnreadable, CacheType, PcType

LEMMA DiesType ==
  ASSUME TypeOK, NEW p \in Procs, Dies(p), UNCHANGED <<stores, cur>>
  PROVE  TypeOK'
<1>1. NotLoaded \in CacheType
  BY ZeroTableType DEF NotLoaded, CacheType
<1>2. cache' \in [Procs -> CacheType] /\ ent' \in [Procs -> Tables]
  BY <1>1, ZeroTableType DEF Dies, TypeOK, CacheType
<1>3. /\ pc' \in [Procs -> PcType]
      /\ arg' \in [Procs -> Slots]
      /\ reply' \in [Procs -> Replies]
      /\ dirty' \in [Procs -> BOOLEAN]
  BY DEF Dies, TypeOK, PcType, Slots, Replies
<1> QED BY <1>2, <1>3 DEF TypeOK, stores, CacheType, PcType

LEMMA InitType == Init => TypeOK
<1> SUFFICES ASSUME Init PROVE TypeOK
  OBVIOUS
<1>1. devinfo \in Tables /\ gpt \in Tables \cup {Lost}
  BY ConfigAssumption DEF Init, SaneTables
<1>2. NotLoaded \in CacheType
  BY ZeroTableType DEF NotLoaded, CacheType
<1>3. cache \in [Procs -> CacheType] /\ ent \in [Procs -> Tables]
  BY <1>2, ZeroTableType DEF Init
<1> QED BY <1>1, <1>3 DEF Init, TypeOK, CacheType, Slots, Replies

LEMMA StepType == TypeOK /\ [Next]_vars => TypeOK'
<1> SUFFICES ASSUME TypeOK, [Next]_vars PROVE TypeOK'
  OBVIOUS
<1>1. ASSUME NEW p \in Procs, NEW s \in Slots, SetActiveBootSlot(p, s)
      PROVE  TypeOK'
  <2>1. PICK readable \in BOOLEAN :
          LET c == Loaded(p, readable) IN
          /\ \/ DevInfoBranch(p, s, c, Activated(c.slots, s), "lun")
             \/ GptBranch(p, s, c, Activated(gpt, s), "gptActivate")
             \/ GptUnreadable(p, c, "error")
          /\ UNCHANGED <<lun, fuses, cur>>
    BY <1>1, ConfigAssumption DEF SetActiveBootSlot, Readings
  <2>2. Loaded(p, readable) \in CacheType
    BY LoadedType
  <2>3. /\ Activated(Loaded(p, readable).slots, s) \in Tables
        /\ gpt # Lost => Activated(gpt, s) \in Tables
    BY <2>2, TableOps DEF CacheType, TypeOK
  <2> QED
    BY <2>1, <2>2, <2>3, DevInfoBranchType, GptBranchType, GptUnreadableType
    DEF GptSteps
<1>2. ASSUME NEW p \in Procs, NEW s \in Slots, SetSlotAsUnbootable(p, s)
      PROVE  TypeOK'
  <2>1. PICK readable \in BOOLEAN :
          LET c == Loaded(p, readable) IN
          /\ \/ DevInfoBranch(p, s, c, Unbooted(c.slots, s), "idle")
             \/ GptBranch(p, s, c, Unbooted(gpt, s), "gptUnbootable")
             \/ GptUnreadable(p, c, "error")
             \/ Dies(p) /\ UNCHANGED <<devinfo, gpt>>
          /\ UNCHANGED <<lun, fuses, cur>>
    BY <1>2, ConfigAssumption DEF SetSlotAsUnbootable, Readings
  <2>2. Loaded(p, readable) \in CacheType
    BY LoadedType
  <2>3. /\ Unbooted(Loaded(p, readable).slots, s) \in Tables
        /\ gpt # Lost => Unbooted(gpt, s) \in Tables
    BY <2>2, TableOps DEF CacheType, TypeOK
  <2> QED
    BY <2>1, <2>2, <2>3, DevInfoBranchType, GptBranchType, GptUnreadableType,
       DiesType
    DEF GptSteps, stores
<1>3. ASSUME NEW p \in Procs, MarkBootSuccessful(p)
      PROVE  TypeOK'
  <2>1. CASE Answer(p, "skipped") /\ UNCHANGED <<devinfo, gpt, cache, dirty, ent>>
             /\ UNCHANGED <<lun, fuses, cur>>
    BY <2>1, AnswerType DEF Replies, TypeOK, PcType
  <2>2. CASE \E readable \in BOOLEAN :
               LET c == Loaded(p, readable) IN
               /\ \/ DevInfoBranch(p, cur, c, Succeeded(c.slots, cur), FirstBank)
                  \/ GptBranch(p, cur, c, Succeeded(gpt, cur), "gptSuccess")
                  \/ GptUnreadable(p, c, "error")
               /\ UNCHANGED <<lun, fuses, cur>>
    <3>1. PICK readable \in BOOLEAN :
               LET c == Loaded(p, readable) IN
               /\ \/ DevInfoBranch(p, cur, c, Succeeded(c.slots, cur), FirstBank)
                  \/ GptBranch(p, cur, c, Succeeded(gpt, cur), "gptSuccess")
                  \/ GptUnreadable(p, c, "error")
               /\ UNCHANGED <<lun, fuses, cur>>
      BY <2>2
    <3>2. Loaded(p, readable) \in CacheType /\ cur \in Slots
      BY LoadedType DEF TypeOK
    <3>3. /\ Succeeded(Loaded(p, readable).slots, cur) \in Tables
          /\ gpt # Lost => Succeeded(gpt, cur) \in Tables
      BY <3>2, TableOps DEF CacheType, TypeOK
    <3> QED
      BY <3>1, <3>2, <3>3, FirstBankType, DevInfoBranchType, GptBranchType,
         GptUnreadableType
      DEF GptSteps
  <2> QED BY <1>3, <2>1, <2>2, ConfigAssumption DEF MarkBootSuccessful, Readings
<1>4. ASSUME NEW p \in Procs, Query(p)
      PROVE  TypeOK'
  <2>1. cache' \in [Procs -> CacheType]
    BY <1>4, LoadedType, ConfigAssumption DEF Query, Readings, TypeOK, CacheType
  <2> QED
    BY <1>4, <2>1, AnswerType DEF Replies, Query, TypeOK, CacheType, PcType, stores
<1>5. ASSUME NEW p \in Procs, SyncGpt(p)
      PROVE  TypeOK'
  <2>1. gpt' \in Tables \cup {Lost} /\ ent' \in [Procs -> Tables] /\ arg[p] \in Slots
    BY <1>5, ZeroTableType DEF SyncGpt, TypeOK
  <2>2. /\ pc' \in [Procs -> PcType]
        /\ arg' \in [Procs -> Slots]
        /\ reply' \in [Procs -> Replies]
    <3>1. \/ Answer(p, "ok") \/ GoOn(p, arg[p], "lun")
          \/ FirstBank # "idle" /\ GoOn(p, arg[p], FirstBank)
      BY <1>5 DEF SyncGpt
    <3> QED BY <2>1, <3>1, AnswerType, GoOnType, FirstBankType DEF Replies, PcType
  <2> QED BY <1>5, <2>1, <2>2 DEF SyncGpt, TypeOK, PcType
<1>6. ASSUME NEW p \in Procs, SwitchBootLun(p)
      PROVE  TypeOK'
  <2>1. lun' \in Slots
    BY <1>6 DEF SwitchBootLun, TypeOK
  <2> QED BY <1>6, <2>1, AnswerType DEF Replies, SwitchBootLun, TypeOK, PcType
<1>7. ASSUME NEW p \in Procs, BlowAR(p)
      PROVE  TypeOK'
  <2>1. fuses' \subseteq Banks /\ arg[p] \in Slots
    BY <1>7 DEF BlowAR, TypeOK
  <2>2. /\ pc' \in [Procs -> PcType]
        /\ arg' \in [Procs -> Slots]
        /\ reply' \in [Procs -> Replies]
    <3>1. Answer(p, "ok") \/ GoOn(p, arg[p], "nonsecure")
      BY <1>7 DEF BlowAR
    <3> QED BY <2>1, <3>1, AnswerType, GoOnType DEF Replies, PcType, Banks
  <2> QED BY <1>7, <2>1, <2>2 DEF BlowAR, TypeOK, PcType
<1>8. ASSUME NEW p \in Procs, Restart(p)
      PROVE  TypeOK'
  BY <1>8, DiesType DEF Restart
<1>9. ASSUME NEW s \in Slots, Reboot(s)
      PROVE  TypeOK'
  <2>1. NotLoaded \in CacheType
    BY ZeroTableType DEF NotLoaded, CacheType
  <2>2. cache' \in [Procs -> CacheType] /\ ent' \in [Procs -> Tables]
    BY <1>9, <2>1, ZeroTableType DEF Reboot
  <2> QED BY <1>9, <2>2 DEF Reboot, TypeOK, CacheType, Slots, Replies
<1>10. CASE UNCHANGED vars
  BY <1>10 DEF vars, TypeOK
<1> QED
  BY <1>1, <1>2, <1>3, <1>4, <1>5, <1>6, <1>7, <1>8, <1>9, <1>10
  DEF Next, ProcStep

(* In every state each part of the HAL's state has its type; in particular *)
(* no call is left between two devices without a valid slot.               *)
THEOREM TypeCorrect == Spec => []TypeOK
<1>1. TypeOK /\ [Next]_vars => TypeOK'
  BY StepType
<1> QED BY InitType, <1>1, PTL DEF Spec
-----------------------------------------------------------------------------
(***************************************************************************)
(* OneActive, for any number of processes.  The stores only ever receive   *)
(* the table a process holds, so the tables in the processes' memory must  *)
(* have one active slot as well: a cache that failed to be written, or is  *)
(* older than the disk, is still such a table.                             *)
(***************************************************************************)
ActiveInv ==
  /\ OneActiveIn(devinfo) /\ (gpt # Lost => OneActiveIn(gpt))
  /\ \A p \in Procs : cache[p].valid => OneActiveIn(cache[p].slots)
  /\ \A p \in Procs : pc[p] \in GptSteps => OneActiveIn(ent[p])

LEMMA StepNames ==
  /\ "idle" \notin GptSteps
  /\ "lun" \notin GptSteps
  /\ \A b \in Banks : b \notin GptSteps
BY DEF GptSteps, Banks

LEMMA LoadedActive ==
  ASSUME ActiveInv, NEW p \in Procs, NEW readable \in BOOLEAN,
         Loaded(p, readable).valid
  PROVE  OneActiveIn(Loaded(p, readable).slots)
BY DEF ActiveInv, Loaded

LEMMA DevInfoBranchActive ==
  ASSUME TypeOK, ActiveInv, NEW p \in Procs, NEW s \in Slots, NEW c \in CacheType,
         NEW new \in Tables, OneActiveIn(new),
         NEW next \in {"idle", "lun"} \cup Banks,
         DevInfoBranch(p, s, c, new, next)
  PROVE  ActiveInv'
<1>1. OneActiveIn(devinfo') /\ (gpt' # Lost => OneActiveIn(gpt'))
  BY DEF DevInfoBranch, SyncOk, SyncFails, ActiveInv
<1>2. [c EXCEPT !.slots = new].slots = new
  BY DEF CacheType
<1>3. \A q \in Procs : cache'[q].valid => OneActiveIn(cache'[q].slots)
  BY <1>2 DEF DevInfoBranch, ActiveInv, TypeOK
<1>4. /\ \A q \in Procs : q # p => pc'[q] = pc[q]
      /\ pc'[p] \notin GptSteps
  BY StepNames DEF DevInfoBranch, Answer, GoOn, TypeOK
<1>5. \A q \in Procs : pc'[q] \in GptSteps => OneActiveIn(ent'[q])
  BY <1>4 DEF DevInfoBranch, ActiveInv
<1> QED BY <1>1, <1>3, <1>5 DEF ActiveInv, OneActiveIn

LEMMA GptBranchActive ==
  ASSUME TypeOK, ActiveInv, NEW p \in Procs, NEW s \in Slots, NEW c \in CacheType,
         NEW new, gpt # Lost => OneActiveIn(new), NEW next \in GptSteps,
         GptBranch(p, s, c, new, next)
  PROVE  ActiveInv'
<1>1. OneActiveIn(devinfo') /\ (gpt' # Lost => OneActiveIn(gpt'))
  BY DEF GptBranch, ActiveInv
<1>2. \A q \in Procs : cache'[q].valid => OneActiveIn(cache'[q].slots)
  BY DEF GptBranch, ActiveInv, TypeOK
<1>3. \A q \in Procs : pc'[q] \in GptSteps => OneActiveIn(ent'[q])
  BY DEF GptBranch, GoOn, ActiveInv, TypeOK
<1> QED BY <1>1, <1>2, <1>3 DEF ActiveInv, OneActiveIn

LEMMA GptUnreadableActive ==
  ASSUME TypeOK, ActiveInv, NEW p \in Procs, NEW c, GptUnreadable(p, c, "error")
  PROVE  ActiveInv'
<1>1. OneActiveIn(devinfo') /\ (gpt' # Lost => OneActiveIn(gpt'))
  BY DEF GptUnreadable, ActiveInv
<1>2. \A q \in Procs : cache'[q].valid => OneActiveIn(cache'[q].slots)
  BY DEF GptUnreadable, ActiveInv, TypeOK
<1>3. \A q \in Procs : pc'[q] \in GptSteps => OneActiveIn(ent'[q])
  BY StepNames DEF GptUnreadable, Answer, ActiveInv, TypeOK
<1> QED BY <1>1, <1>2, <1>3 DEF ActiveInv, OneActiveIn

LEMMA DiesActive ==
  ASSUME TypeOK, ActiveInv, NEW p \in Procs, Dies(p), UNCHANGED <<devinfo, gpt>>
  PROVE  ActiveInv'
<1>1. \A q \in Procs : cache'[q].valid => OneActiveIn(cache'[q].slots)
  BY DEF Dies, NotLoaded, ActiveInv, TypeOK
<1>2. \A q \in Procs : pc'[q] \in GptSteps => OneActiveIn(ent'[q])
  BY StepNames DEF Dies, ActiveInv, TypeOK
<1> QED BY <1>1, <1>2 DEF ActiveInv, OneActiveIn

LEMMA InitActive == Init => ActiveInv
<1> SUFFICES ASSUME Init PROVE ActiveInv
  OBVIOUS
<1>1. OneActiveIn(devinfo) /\ OneActiveIn(gpt)
  BY ConfigAssumption DEF Init, SaneTables
<1> QED BY <1>1, StepNames DEF Init, ActiveInv, NotLoaded

LEMMA StepActive == TypeOK /\ ActiveInv /\ [Next]_vars => ActiveInv'
<1> SUFFICES ASSUME TypeOK, ActiveInv, [Next]_vars PROVE ActiveInv'
  OBVIOUS
<1>1. ASSUME NEW p \in Procs, NEW s \in Slots, SetActiveBootSlot(p, s)
      PROVE  ActiveInv'
  <2>1. PICK readable \in BOOLEAN :
          LET c == Loaded(p, readable) IN
             \/ DevInfoBranch(p, s, c, Activated(c.slots, s), "lun")
             \/ GptBranch(p, s, c, Activated(gpt, s), "gptActivate")
             \/ GptUnreadable(p, c, "error")
    BY <1>1, ConfigAssumption DEF SetActiveBootSlot, Readings
  <2>2. Loaded(p, readable) \in CacheType /\ gpt \in Tables \cup {Lost}
    BY LoadedType DEF TypeOK
  <2>3. Loaded(p, readable).slots \in Tables
    BY <2>2 DEF CacheType
  <2>4. /\ Activated(Loaded(p, readable).slots, s) \in Tables
        /\ gpt # Lost => Activated(gpt, s) \in Tables
        /\ OneActiveIn(Activated(Loaded(p, readable).slots, s))
        /\ gpt # Lost => OneActiveIn(Activated(gpt, s))
    BY <2>2, <2>3, TableOps, ActivatedOne
  <2> QED
    BY <2>1, <2>2, <2>4, DevInfoBranchActive, GptBranchActive, GptUnreadableActive
    DEF GptSteps
<1>2. ASSUME NEW p \in Procs, NEW s \in Slots, SetSlotAsUnbootable(p, s)
      PROVE  ActiveInv'
  <2>1. PICK readable \in BOOLEAN :
          LET c == Loaded(p, readable) IN
             \/ DevInfoBranch(p, s, c, Unbooted(c.slots, s), "idle")
             \/ GptBranch(p, s, c, Unbooted(gpt, s), "gptUnbootable")
             \/ GptUnreadable(p, c, "error")
             \/ Dies(p) /\ UNCHANGED <<devinfo, gpt>>
    BY <1>2, ConfigAssumption DEF SetSlotAsUnbootable, Readings
  <2>2. Loaded(p, readable) \in CacheType /\ gpt \in Tables \cup {Lost}
    BY LoadedType DEF TypeOK
  <2>3. Loaded(p, readable).slots \in Tables
    BY <2>2 DEF CacheType
  <2>4. /\ Unbooted(Loaded(p, readable).slots, s) \in Tables
        /\ gpt # Lost => Unbooted(gpt, s) \in Tables
        /\ gpt # Lost => OneActiveIn(Unbooted(gpt, s))
    BY <2>2, <2>3, TableOps, MarksKeepOne DEF ActiveInv
  <2>5. Loaded(p, readable).valid =>
          OneActiveIn(Unbooted(Loaded(p, readable).slots, s))
    BY <2>3, LoadedActive, MarksKeepOne
  <2>6. CASE DevInfoBranch(p, s, Loaded(p, readable),
                           Unbooted(Loaded(p, readable).slots, s), "idle")
    BY <2>2, <2>4, <2>5, <2>6, DevInfoBranchActive DEF DevInfoBranch
  <2> QED
    BY <2>1, <2>2, <2>4, <2>6, GptBranchActive, GptUnreadableActive, DiesActive
    DEF GptSteps
<1>3. ASSUME NEW p \in Procs, MarkBootSuccessful(p)
      PROVE  ActiveInv'
  <2>1. CASE Answer(p, "skipped") /\ UNCHANGED <<devinfo, gpt, cache, dirty, ent>>
    BY <2>1, StepNames DEF Answer, ActiveInv, TypeOK, OneActiveIn
  <2>2. CASE \E readable \in BOOLEAN :
               LET c == Loaded(p, readable) IN
                  \/ DevInfoBranch(p, cur, c, Succeeded(c.slots, cur), FirstBank)
                  \/ GptBranch(p, cur, c, Succeeded(gpt, cur), "gptSuccess")
                  \/ GptUnreadable(p, c, "error")
    <3>1. PICK readable \in BOOLEAN :
               LET c == Loaded(p, readable) IN
                  \/ DevInfoBranch(p, cur, c, Succeeded(c.slots, cur), FirstBank)
                  \/ GptBranch(p, cur, c, Succeeded(gpt, cur), "gptSuccess")
                  \/ GptUnreadable(p, c, "error")
      BY <2>2
    <3>2. Loaded(p, readable) \in CacheType /\ cur \in Slots /\ gpt \in Tables \cup {Lost}
      BY LoadedType DEF TypeOK
    <3>3. Loaded(p, readable).slots \in Tables
      BY <3>2 DEF CacheType
    <3>4. /\ Succeeded(Loaded(p, readable).slots, cur) \in Tables
          /\ gpt # Lost => Succeeded(gpt, cur) \in Tables
          /\ gpt # Lost => OneActiveIn(Succeeded(gpt, cur))
      BY <3>2, <3>3, TableOps, MarksKeepOne DEF ActiveInv
    <3>5. Loaded(p, readable).valid =>
            OneActiveIn(Succeeded(Loaded(p, readable).slots, cur))
      BY <3>2, <3>3, LoadedActive, MarksKeepOne
    <3>6. CASE DevInfoBranch(p, cur, Loaded(p, readable),
                             Succeeded(Loaded(p, readable).slots, cur), FirstBank)
      BY <3>2, <3>4, <3>5, <3>6, FirstBankType, DevInfoBranchActive
      DEF DevInfoBranch
    <3> QED
      BY <3>1, <3>2, <3>4, <3>6, GptBranchActive, GptUnreadableActive
      DEF GptSteps
  <2> QED BY <1>3, <2>1, <2>2, ConfigAssumption DEF MarkBootSuccessful, Readings
<1>4. ASSUME NEW p \in Procs, Query(p)
      PROVE  ActiveInv'
  <2>1. \A q \in Procs : cache'[q].valid => OneActiveIn(cache'[q].slots)
    <3>1. CASE UNCHANGED cache
      BY <3>1 DEF ActiveInv
    <3>2. CASE \E readable \in BOOLEAN :
                 cache' = [cache EXCEPT ![p] = Loaded(p, readable)]
      <4>1. PICK readable \in BOOLEAN :
              cache' = [cache EXCEPT ![p] = Loaded(p, readable)]
        BY <3>2
      <4>2. cache'[p] = Loaded(p, readable)
            /\ \A q \in Procs : q # p => cache'[q] = cache[q]
        BY <4>1 DEF TypeOK
      <4> QED BY <4>2, LoadedActive DEF ActiveInv
    <3> QED BY <1>4, <3>1, <3>2, ConfigAssumption DEF Query, Readings
  <2>2. \A q \in Procs : pc'[q] \in GptSteps => OneActiveIn(ent'[q])
    BY <1>4, StepNames DEF Query, Answer, ActiveInv, TypeOK
  <2> QED BY <1>4, <2>1, <2>2 DEF Query, stores, ActiveInv, OneActiveIn
<1>5. ASSUME NEW p \in Procs, SyncGpt(p)
      PROVE  ActiveInv'
  <2>1. (gpt' # Lost => OneActiveIn(gpt')) /\ OneActiveIn(devinfo')
    BY <1>5 DEF SyncGpt, ActiveInv
  <2>2. \A q \in Procs : cache'[q].valid => OneActiveIn(cache'[q].slots)
    BY <1>5 DEF SyncGpt, ActiveInv
  <2>3. \A q \in Procs : pc'[q] \in GptSteps => OneActiveIn(ent'[q])
    BY <1>5, StepNames, FirstBankType
    DEF SyncGpt, Answer, GoOn, ActiveInv, TypeOK
  <2> QED BY <2>1, <2>2, <2>3 DEF ActiveInv, OneActiveIn
<1>6. ASSUME NEW p \in Procs, SwitchBootLun(p)
      PROVE  ActiveInv'
  BY <1>6, StepNames DEF SwitchBootLun, Answer, ActiveInv, TypeOK, OneActiveIn
<1>7. ASSUME NEW p \in Procs, BlowAR(p)
      PROVE  ActiveInv'
  BY <1>7, StepNames DEF BlowAR, Answer, GoOn, ActiveInv, TypeOK, OneActiveIn, Banks
<1>8. ASSUME NEW p \in Procs, Restart(p)
      PROVE  ActiveInv'
  BY <1>8, DiesActive DEF Restart, stores
<1>9. ASSUME NEW s \in Slots, Reboot(s)
      PROVE  ActiveInv'
  BY <1>9, StepNames DEF Reboot, ActiveInv, NotLoaded, OneActiveIn
<1>10. CASE UNCHANGED vars
  BY <1>10 DEF vars, ActiveInv, OneActiveIn
<1> QED
  BY <1>1, <1>2, <1>3, <1>4, <1>5, <1>6, <1>7, <1>8, <1>9, <1>10
  DEF Next, ProcStep

(* Exactly one slot is active in devinfo, and in the GPT unless a failed   *)
(* Load lost its entries, in every state of any number of HAL processes    *)
(* with any pattern of stale caches, failed reads and failed writes.       *)
THEOREM AlwaysOneActive == Spec => []OneActive
<1>1. ActiveInv => OneActive
  BY DEF ActiveInv, OneActive
<1>2. TypeOK /\ ActiveInv /\ [Next]_vars => ActiveInv'
  BY StepActive
<1> QED BY InitActive, TypeCorrect, <1>1, <1>2, PTL DEF Spec
-----------------------------------------------------------------------------
(***************************************************************************)
(* One process.  Why its cache can be trusted: the cache and the disk part *)
(* only when a sync fails, every successful sync writes the whole table,   *)
(* and a call goes on to the boot LUN or the fuses only after one.         *)
(***************************************************************************)
SingleInv ==
  \A p \in Procs :
    /\ cache[p].valid => cache[p].init
    /\ cache[p].valid /\ ~dirty[p] => cache[p].slots = devinfo
    /\ pc[p] \in GptSteps => ~cache[p].valid
    /\ pc[p] # "idle" => reply[p] = "none" /\ ~dirty[p]
    /\ pc[p] = "lun" /\ cache[p].valid => devinfo[arg[p]] = FreshSlot
    /\ pc[p] \in Banks /\ cache[p].valid => devinfo[cur].successful
    /\ pc[p] = "nonsecure" => "secure" \in fuses
    /\ ~cache[p].valid => ~dirty[p]
    /\ reply[p] = "ok" => ~dirty[p]

LEMMA TableResults ==
  ASSUME NEW t \in Tables, NEW s \in Slots
  PROVE  Activated(t, s)[s] = FreshSlot /\ Succeeded(t, s)[s].successful
<1>1. Activated(t, s)[s] = FreshSlot
  BY DEF Activated, Tables
<1>2. Succeeded(t, s)[s].successful
  BY DEF Succeeded, Tables, SlotData
<1> QED BY <1>1, <1>2

LEMMA LoadedSingle ==
  ASSUME SingleInv, TypeOK, NEW p \in Procs, NEW readable \in BOOLEAN, Idle(p)
  PROVE  LET c == Loaded(p, readable) IN
         /\ c.init
         /\ c.valid /\ ~dirty[p] => c.slots = devinfo
         /\ ~c.valid => ~dirty[p]
         /\ c.valid => c.slots = IF cache[p].valid THEN cache[p].slots ELSE devinfo
BY DEF SingleInv, Loaded, TypeOK

LEMMA DevInfoBranchSingle ==
  ASSUME Procs = {Proc}, TypeOK, SingleInv, NEW s \in Slots, NEW c \in CacheType,
         c.init, NEW new \in Tables, NEW next \in {"idle", "lun"} \cup Banks,
         next = "lun" => new[s] = FreshSlot,
         next \in Banks => new[cur].successful, next # "nonsecure",
         DevInfoBranch(Proc, s, c, new, next), UNCHANGED <<fuses, cur>>
  PROVE  SingleInv'
<1>1. Proc \in Procs
  OBVIOUS
<1>2. cache'[Proc] = [c EXCEPT !.slots = new]
  BY <1>1 DEF DevInfoBranch, TypeOK
<1>3. cache'[Proc].init /\ cache'[Proc].valid /\ cache'[Proc].slots = new
  BY <1>2 DEF CacheType, DevInfoBranch
<1>4. CASE SyncOk(Proc, new) /\ next = "idle" /\ Answer(Proc, "ok")
  <2>1. /\ devinfo' = new /\ ~dirty'[Proc]
        /\ pc'[Proc] = "idle" /\ reply'[Proc] = "ok"
    BY <1>1, <1>4 DEF SyncOk, Answer, TypeOK
  <2> QED BY <1>3, <2>1, StepNames DEF SingleInv, Banks
<1>5. CASE SyncOk(Proc, new) /\ next # "idle" /\ GoOn(Proc, s, next)
  <2>1. /\ devinfo' = new /\ ~dirty'[Proc] /\ cur' = cur
        /\ pc'[Proc] = next /\ reply'[Proc] = "none" /\ arg'[Proc] = s
    BY <1>1, <1>5 DEF SyncOk, GoOn, TypeOK
  <2> QED BY <1>3, <1>5, <2>1, StepNames DEF SingleInv, Banks
<1>6. CASE SyncFails(Proc, new) /\ Answer(Proc, "error")
  <2>1. dirty'[Proc] /\ pc'[Proc] = "idle" /\ reply'[Proc] = "error"
    BY <1>1, <1>6 DEF SyncFails, Answer, TypeOK
  <2> QED BY <1>3, <2>1, StepNames DEF SingleInv, Banks
<1> QED BY <1>4, <1>5, <1>6 DEF DevInfoBranch

LEMMA OffDevInfoSingle ==
  ASSUME Procs = {Proc}, TypeOK, SingleInv, NEW s \in Slots, NEW c \in CacheType,
         c.init, ~dirty[Proc], UNCHANGED <<fuses, cur>>,
         \/ \E new : \E next \in GptSteps : GptBranch(Proc, s, c, new, next)
         \/ GptUnreadable(Proc, c, "error")
  PROVE  SingleInv'
<1>1. Proc \in Procs
  OBVIOUS
<1>2. /\ cache'[Proc] = c /\ ~c.valid
      /\ ~dirty'[Proc]
      /\ pc'[Proc] \in GptSteps \cup {"idle"}
      /\ pc'[Proc] \in GptSteps => reply'[Proc] = "none"
  <2>1. CASE \E new : \E next \in GptSteps :
               GptBranch(Proc, s, c, new, next)
    BY <1>1, <2>1 DEF GptBranch, GoOn, TypeOK
  <2>2. CASE GptUnreadable(Proc, c, "error")
    BY <1>1, <2>2, StepNames DEF GptUnreadable, Answer, TypeOK
  <2> QED BY <2>1, <2>2
<1> QED BY <1>2, StepNames DEF SingleInv, Banks, GptSteps

LEMMA DiesSingle ==
  ASSUME Procs = {Proc}, TypeOK, Dies(Proc)
  PROVE  SingleInv'
<1>1. Proc \in Procs
  OBVIOUS
<1>2. /\ ~cache'[Proc].valid /\ ~dirty'[Proc]
      /\ pc'[Proc] = "idle" /\ reply'[Proc] = "none"
  BY <1>1 DEF Dies, NotLoaded, TypeOK
<1> QED BY <1>2, StepNames DEF SingleInv, Banks

LEMMA InitSingle == Init => SingleInv
BY StepNames DEF Init, SingleInv, NotLoaded, Banks

LEMMA StepSingle ==
  ASSUME Procs = {Proc}, TypeOK, SingleInv, [Next]_vars
  PROVE  SingleInv'
<1>0. Proc \in Procs
  OBVIOUS
<1>1. ASSUME NEW s \in Slots, SetActiveBootSlot(Proc, s)
      PROVE  SingleInv'
  <2>1. PICK readable \in BOOLEAN :
          LET c == Loaded(Proc, readable) IN
          /\ Idle(Proc)
          /\ \/ DevInfoBranch(Proc, s, c, Activated(c.slots, s), "lun")
             \/ GptBranch(Proc, s, c, Activated(gpt, s), "gptActivate")
             \/ GptUnreadable(Proc, c, "error")
          /\ UNCHANGED <<fuses, cur>>
    BY <1>1, ConfigAssumption DEF SetActiveBootSlot, Readings
  <2>2. Loaded(Proc, readable) \in CacheType
    BY <1>0, LoadedType
  <2>3. /\ Activated(Loaded(Proc, readable).slots, s) \in Tables
        /\ gpt # Lost => Activated(gpt, s) \in Tables
        /\ Activated(Loaded(Proc, readable).slots, s)[s] = FreshSlot
    BY <2>2, TableOps, TableResults DEF CacheType, TypeOK
  <2>4. /\ Loaded(Proc, readable).init
        /\ ~Loaded(Proc, readable).valid => ~dirty[Proc]
    BY <1>0, <2>1, LoadedSingle
  <2>5. CASE DevInfoBranch(Proc, s, Loaded(Proc, readable),
                           Activated(Loaded(Proc, readable).slots, s), "lun")
    BY <2>1, <2>2, <2>3, <2>4, <2>5, DevInfoBranchSingle DEF Banks
  <2>6. CASE \/ GptBranch(Proc, s, Loaded(Proc, readable), Activated(gpt, s),
                          "gptActivate")
             \/ GptUnreadable(Proc, Loaded(Proc, readable), "error")
    <3>1. ~dirty[Proc]
      BY <2>4, <2>6 DEF GptBranch, GptUnreadable
    <3> QED BY <2>1, <2>2, <2>3, <2>4, <2>6, <3>1, OffDevInfoSingle DEF GptSteps
  <2> QED BY <2>1, <2>5, <2>6
<1>2. ASSUME NEW s \in Slots, SetSlotAsUnbootable(Proc, s)
      PROVE  SingleInv'
  <2>1. PICK readable \in BOOLEAN :
          LET c == Loaded(Proc, readable) IN
          /\ Idle(Proc)
          /\ \/ DevInfoBranch(Proc, s, c, Unbooted(c.slots, s), "idle")
             \/ GptBranch(Proc, s, c, Unbooted(gpt, s), "gptUnbootable")
             \/ GptUnreadable(Proc, c, "error")
             \/ Dies(Proc)
          /\ UNCHANGED <<fuses, cur>>
    BY <1>2, ConfigAssumption DEF SetSlotAsUnbootable, Readings
  <2>2. Loaded(Proc, readable) \in CacheType
    BY <1>0, LoadedType
  <2>3. /\ Unbooted(Loaded(Proc, readable).slots, s) \in Tables
        /\ gpt # Lost => Unbooted(gpt, s) \in Tables
    BY <2>2, TableOps DEF CacheType, TypeOK
  <2>4. /\ Loaded(Proc, readable).init
        /\ ~Loaded(Proc, readable).valid => ~dirty[Proc]
    BY <1>0, <2>1, LoadedSingle
  <2>5. CASE DevInfoBranch(Proc, s, Loaded(Proc, readable),
                           Unbooted(Loaded(Proc, readable).slots, s), "idle")
    BY <2>1, <2>2, <2>3, <2>4, <2>5, DevInfoBranchSingle DEF Banks
  <2>6. CASE \/ GptBranch(Proc, s, Loaded(Proc, readable), Unbooted(gpt, s),
                          "gptUnbootable")
             \/ GptUnreadable(Proc, Loaded(Proc, readable), "error")
    <3>1. ~dirty[Proc]
      BY <2>4, <2>6 DEF GptBranch, GptUnreadable
    <3> QED BY <2>1, <2>2, <2>3, <2>4, <2>6, <3>1, OffDevInfoSingle DEF GptSteps
  <2> QED BY <2>1, <2>5, <2>6, DiesSingle
<1>3. ASSUME MarkBootSuccessful(Proc)
      PROVE  SingleInv'
  <2>1. CASE /\ 0 \in LinkCounts /\ Idle(Proc) /\ Answer(Proc, "skipped")
             /\ UNCHANGED <<devinfo, gpt, cache, dirty, ent, fuses, cur>>
    <3>1. pc'[Proc] = "idle" /\ reply'[Proc] = "skipped"
      BY <1>0, <2>1 DEF Answer, TypeOK
    <3> QED BY <2>1, <3>1, StepNames DEF SingleInv, Banks
  <2>2. CASE \E readable \in BOOLEAN :
               LET c == Loaded(Proc, readable) IN
               /\ Idle(Proc)
               /\ \/ DevInfoBranch(Proc, cur, c, Succeeded(c.slots, cur), FirstBank)
                  \/ GptBranch(Proc, cur, c, Succeeded(gpt, cur), "gptSuccess")
                  \/ GptUnreadable(Proc, c, "error")
               /\ UNCHANGED <<fuses, cur>>
    <3>1. PICK readable \in BOOLEAN :
               LET c == Loaded(Proc, readable) IN
               /\ Idle(Proc)
               /\ \/ DevInfoBranch(Proc, cur, c, Succeeded(c.slots, cur), FirstBank)
                  \/ GptBranch(Proc, cur, c, Succeeded(gpt, cur), "gptSuccess")
                  \/ GptUnreadable(Proc, c, "error")
               /\ UNCHANGED <<fuses, cur>>
      BY <2>2
    <3>2. Loaded(Proc, readable) \in CacheType /\ cur \in Slots
      BY <1>0, LoadedType DEF TypeOK
    <3>3. /\ Succeeded(Loaded(Proc, readable).slots, cur) \in Tables
          /\ gpt # Lost => Succeeded(gpt, cur) \in Tables
          /\ Succeeded(Loaded(Proc, readable).slots, cur)[cur].successful
      BY <3>2, TableOps, TableResults DEF CacheType, TypeOK
    <3>4. /\ Loaded(Proc, readable).init
          /\ ~Loaded(Proc, readable).valid => ~dirty[Proc]
      BY <1>0, <3>1, LoadedSingle
    <3>5. FirstBank \in Banks \cup {"idle"} /\ FirstBank # "nonsecure"
      BY PlatformAssumption DEF FirstBank, Banks
    <3>6. CASE DevInfoBranch(Proc, cur, Loaded(Proc, readable),
                   Succeeded(Loaded(Proc, readable).slots, cur), FirstBank)
      BY <3>1, <3>2, <3>3, <3>4, <3>5, <3>6, DevInfoBranchSingle DEF Banks
    <3>7. CASE \/ GptBranch(Proc, cur, Loaded(Proc, readable),
                            Succeeded(gpt, cur), "gptSuccess")
               \/ GptUnreadable(Proc, Loaded(Proc, readable), "error")
      <4>1. ~dirty[Proc]
        BY <3>4, <3>7 DEF GptBranch, GptUnreadable
      <4> QED BY <3>1, <3>2, <3>3, <3>4, <3>7, <4>1, OffDevInfoSingle DEF GptSteps
    <3> QED BY <3>1, <3>6, <3>7
  <2> QED BY <1>3, <2>1, <2>2, ConfigAssumption DEF MarkBootSuccessful, Readings
<1>4. ASSUME Query(Proc)
      PROVE  SingleInv'
  <2>1. /\ pc'[Proc] = "idle" /\ reply'[Proc] = "none" /\ Idle(Proc)
        /\ UNCHANGED <<devinfo, fuses, cur, dirty>>
    BY <1>0, <1>4 DEF Query, Answer, stores, TypeOK
  <2>2. CASE UNCHANGED cache
    BY <2>1, <2>2, StepNames DEF SingleInv, Banks
  <2>3. CASE \E readable \in BOOLEAN :
               cache' = [cache EXCEPT ![Proc] = Loaded(Proc, readable)]
    <3>1. PICK readable \in BOOLEAN :
            cache' = [cache EXCEPT ![Proc] = Loaded(Proc, readable)]
      BY <2>3
    <3>2. cache'[Proc] = Loaded(Proc, readable)
      BY <1>0, <3>1 DEF TypeOK
    <3>3. LET c == Loaded(Proc, readable) IN
          /\ c.init
          /\ c.valid /\ ~dirty[Proc] => c.slots = devinfo
          /\ ~c.valid => ~dirty[Proc]
      BY <1>0, <2>1, LoadedSingle
    <3> QED BY <2>1, <3>2, <3>3, StepNames DEF SingleInv, Banks
  <2> QED BY <1>4, <2>2, <2>3, ConfigAssumption DEF Query, Readings
<1>5. ASSUME SyncGpt(Proc)
      PROVE  SingleInv'
  <2>1. /\ ~cache[Proc].valid /\ ~dirty[Proc]
        /\ UNCHANGED <<cache, dirty, fuses, cur>>
    BY <1>0, <1>5, StepNames DEF SyncGpt, SingleInv
  <2>2. FirstBank \in {"idle", "ap", "secure"}
    BY PlatformAssumption DEF FirstBank
  <2>3. /\ pc'[Proc] \in {"idle", "lun", "ap", "secure"}
        /\ pc'[Proc] # "idle" => reply'[Proc] = "none"
    BY <1>0, <1>5, <2>2 DEF SyncGpt, Answer, GoOn, TypeOK
  <2> QED BY <2>1, <2>3, StepNames DEF SingleInv, Banks, GptSteps
<1>6. ASSUME SwitchBootLun(Proc)
      PROVE  SingleInv'
  <2>1. /\ pc[Proc] = "lun" /\ pc'[Proc] = "idle"
        /\ UNCHANGED <<devinfo, cache, dirty, fuses, cur>>
    BY <1>0, <1>6 DEF SwitchBootLun, Answer, TypeOK
  <2> QED BY <2>1, StepNames DEF SingleInv, Banks
<1>7. ASSUME BlowAR(Proc)
      PROVE  SingleInv'
  <2>1. /\ pc[Proc] \in Banks
        /\ UNCHANGED <<devinfo, cache, dirty, cur>>
        /\ \/ pc'[Proc] = "idle"
           \/ pc'[Proc] = "nonsecure" /\ reply'[Proc] = "none" /\ "secure" \in fuses'
    BY <1>0, <1>7 DEF BlowAR, Answer, GoOn, TypeOK
  <2>2. pc[Proc] # "idle" /\ "nonsecure" \in Banks
    BY <2>1 DEF Banks
  <2> QED BY <2>1, <2>2, StepNames DEF SingleInv, Banks
<1>8. ASSUME Restart(Proc)
      PROVE  SingleInv'
  BY <1>8, DiesSingle DEF Restart
<1>9. ASSUME NEW s \in Slots, Reboot(s)
      PROVE  SingleInv'
  BY <1>9, StepNames DEF Reboot, SingleInv, NotLoaded, Banks
<1>10. CASE UNCHANGED vars
  BY <1>10 DEF vars, SingleInv
<1> QED
  BY <1>1, <1>2, <1>3, <1>4, <1>5, <1>6, <1>7, <1>8, <1>9, <1>10
  DEF Next, ProcStep

(* With one process, its copy of devinfo is the one on disk unless its     *)
(* last sync failed.                                                       *)
THEOREM SingleProcessCoherent ==
  ASSUME Procs = {Proc}
  PROVE  Spec => []CacheCoherent
<1>1. SingleInv => CacheCoherent
  BY DEF SingleInv, CacheCoherent
<1>2. TypeOK /\ SingleInv /\ [Next]_vars => SingleInv'
  BY StepSingle
<1> QED BY InitSingle, TypeCorrect, <1>1, <1>2, PTL DEF Spec

(* With one process, an answer ok leaves no change of any call unwritten.  *)
THEOREM OkLeavesNothing ==
  ASSUME Procs = {Proc}
  PROVE  Spec => []OkIsDurable
<1>1. SingleInv => OkIsDurable
  BY DEF SingleInv, OkIsDurable
<1>2. TypeOK /\ SingleInv /\ [Next]_vars => SingleInv'
  BY StepSingle
<1> QED BY InitSingle, TypeCorrect, <1>1, <1>2, PTL DEF Spec

(* With one process, the boot LUN is switched only to a slot that devinfo  *)
(* already holds as freshly activated.                                     *)
THEOREM LunAfterMetadata ==
  ASSUME Procs = {Proc}
  PROVE  Spec => LunFollowsMetadata
<1>1. ASSUME TypeOK, SingleInv, [Next]_vars,
             NEW p \in Procs, lun' # lun, cache[p].valid
      PROVE  devinfo[lun'] = FreshSlot
  <2>1. SwitchBootLun(Proc)
    BY <1>1 DEF Next, ProcStep, vars, stores, SetActiveBootSlot,
                SetSlotAsUnbootable, MarkBootSuccessful, Query, SyncGpt, BlowAR,
                Restart, Reboot
  <2>2. pc[Proc] = "lun" /\ lun' = arg[Proc]
    BY <1>1, <2>1 DEF SwitchBootLun
  <2> QED BY <1>1, <2>2 DEF SingleInv
<1>2. TypeOK /\ SingleInv /\ [Next]_vars
        => [\A p \in Procs :
              lun' # lun /\ cache[p].valid => devinfo[lun'] = FreshSlot]_vars
  BY <1>1
<1>3. TypeOK /\ SingleInv /\ [Next]_vars => SingleInv'
  BY StepSingle
<1> QED BY InitSingle, TypeCorrect, <1>2, <1>3, PTL DEF Spec, LunFollowsMetadata

(* With one process, an anti-rollback fuse is burned only for a slot that  *)
(* devinfo already holds as successful, the secure bank first.             *)
THEOREM FusesAfterMark ==
  ASSUME Procs = {Proc}
  PROVE  Spec => FusesFollowSuccessMark
<1>1. ASSUME TypeOK, SingleInv, [Next]_vars,
             NEW p \in Procs, NEW bank \in fuses' \ fuses
      PROVE  /\ cache[p].valid => devinfo[cur].successful
             /\ bank = "nonsecure" => "secure" \in fuses
  <2>1. BlowAR(Proc)
    BY <1>1 DEF Next, ProcStep, vars, stores, SetActiveBootSlot,
                SetSlotAsUnbootable, MarkBootSuccessful, Query, SyncGpt,
                SwitchBootLun, Restart, Reboot
  <2>2. pc[Proc] \in Banks /\ bank = pc[Proc]
    BY <1>1, <2>1 DEF BlowAR
  <2> QED BY <1>1, <2>2 DEF SingleInv
<1>2. TypeOK /\ SingleInv /\ [Next]_vars
        => [\A p \in Procs : \A bank \in fuses' \ fuses :
              /\ cache[p].valid => devinfo[cur].successful
              /\ bank = "nonsecure" => "secure" \in fuses]_vars
  BY <1>1
<1>3. TypeOK /\ SingleInv /\ [Next]_vars => SingleInv'
  BY StepSingle
<1> QED BY InitSingle, TypeCorrect, <1>2, <1>3, PTL
        DEF Spec, FusesFollowSuccessMark

-----------------------------------------------------------------------------
(***************************************************************************)
(* One process on the GPT path.  The entries waiting in memory are the     *)
(* change of this call applied to what the disk still holds: each call     *)
(* loads them anew, and nobody else writes.                                *)
(***************************************************************************)
PendingInv ==
  /\ pc[Proc] \in GptSteps => gpt # Lost
  /\ pc[Proc] = "gptActivate" => ent[Proc] = Activated(gpt, arg[Proc])
  /\ pc[Proc] = "gptSuccess" => ent[Proc] = Succeeded(gpt, cur)
  /\ pc[Proc] = "gptUnbootable" => ent[Proc] = Unbooted(gpt, arg[Proc])

LEMMA NothingPending == ASSUME pc'[Proc] \notin GptSteps PROVE PendingInv'
BY DEF PendingInv, GptSteps

(* A branch leaves entries waiting only when it is the GPT one.            *)
LEMMA BranchPending ==
  ASSUME Procs = {Proc}, TypeOK, NEW s, NEW c,
         \/ \E new, next : /\ next \notin GptSteps
                           /\ DevInfoBranch(Proc, s, c, new, next)
         \/ \E r : GptUnreadable(Proc, c, r)
  PROVE  PendingInv'
<1>1. Proc \in Procs
  OBVIOUS
<1>2. CASE \E r : GptUnreadable(Proc, c, r)
  BY <1>1, <1>2, StepNames, NothingPending DEF GptUnreadable, Answer, TypeOK
<1>3. ASSUME NEW new, NEW next, next \notin GptSteps,
             DevInfoBranch(Proc, s, c, new, next)
      PROVE  PendingInv'
  BY <1>1, <1>3, StepNames, NothingPending DEF DevInfoBranch, Answer, GoOn, TypeOK
<1> QED BY <1>2, <1>3

LEMMA GptBranchPending ==
  ASSUME Procs = {Proc}, TypeOK, NEW s, NEW c, NEW new, NEW next,
         GptBranch(Proc, s, c, new, next)
  PROVE  /\ pc'[Proc] = next /\ arg'[Proc] = s /\ ent'[Proc] = new
         /\ gpt' = gpt /\ gpt # Lost
BY DEF GptBranch, GoOn, TypeOK

LEMMA InitPending == ASSUME Proc \in Procs, Init PROVE PendingInv
BY StepNames DEF Init, PendingInv, GptSteps

LEMMA StepPending ==
  ASSUME Procs = {Proc}, TypeOK, PendingInv, [Next]_vars
  PROVE  PendingInv'
<1>0. Proc \in Procs
  OBVIOUS
<1>1. ASSUME NEW s \in Slots, SetActiveBootSlot(Proc, s)
      PROVE  PendingInv'
  <2>1. PICK readable \in Readings(Proc) :
          LET c == Loaded(Proc, readable) IN
          \/ DevInfoBranch(Proc, s, c, Activated(c.slots, s), "lun")
          \/ GptBranch(Proc, s, c, Activated(gpt, s), "gptActivate")
          \/ GptUnreadable(Proc, c, "error")
    BY <1>1 DEF SetActiveBootSlot
  <2>2. CASE GptBranch(Proc, s, Loaded(Proc, readable), Activated(gpt, s),
                       "gptActivate")
    BY <2>2, GptBranchPending DEF PendingInv
  <2> QED BY <2>1, <2>2, BranchPending, StepNames
<1>2. ASSUME NEW s \in Slots, SetSlotAsUnbootable(Proc, s)
      PROVE  PendingInv'
  <2>1. PICK readable \in Readings(Proc) :
          LET c == Loaded(Proc, readable) IN
          \/ DevInfoBranch(Proc, s, c, Unbooted(c.slots, s), "idle")
          \/ GptBranch(Proc, s, c, Unbooted(gpt, s), "gptUnbootable")
          \/ GptUnreadable(Proc, c, "error")
          \/ Dies(Proc)
    BY <1>2 DEF SetSlotAsUnbootable
  <2>2. CASE GptBranch(Proc, s, Loaded(Proc, readable), Unbooted(gpt, s),
                       "gptUnbootable")
    BY <2>2, GptBranchPending DEF PendingInv
  <2>3. CASE Dies(Proc)
    BY <1>0, <2>3, StepNames, NothingPending DEF Dies, TypeOK
  <2> QED BY <2>1, <2>2, <2>3, BranchPending, StepNames
<1>3. ASSUME MarkBootSuccessful(Proc)
      PROVE  PendingInv'
  <2>1. CASE Answer(Proc, "skipped")
    BY <1>0, <2>1, StepNames, NothingPending DEF Answer, TypeOK
  <2>2. ASSUME NEW readable \in Readings(Proc),
               LET c == Loaded(Proc, readable) IN
               \/ DevInfoBranch(Proc, cur, c, Succeeded(c.slots, cur), FirstBank)
               \/ GptBranch(Proc, cur, c, Succeeded(gpt, cur), "gptSuccess")
               \/ GptUnreadable(Proc, c, "error")
        PROVE  PendingInv'
    <3>1. FirstBank \notin GptSteps /\ cur' = cur
      BY <1>3, FirstBankType, StepNames DEF MarkBootSuccessful
    <3>2. CASE GptBranch(Proc, cur, Loaded(Proc, readable), Succeeded(gpt, cur),
                         "gptSuccess")
      BY <3>1, <3>2, GptBranchPending DEF PendingInv
    <3> QED BY <2>2, <3>1, <3>2, BranchPending
  <2> QED BY <1>3, <2>1, <2>2 DEF MarkBootSuccessful
<1>4. ASSUME Query(Proc) \/ SwitchBootLun(Proc)
      PROVE  PendingInv'
  <2>1. pc'[Proc] = "idle"
    BY <1>0, <1>4 DEF Query, SwitchBootLun, Answer, TypeOK
  <2> QED BY <2>1, StepNames, NothingPending
<1>5. ASSUME SyncGpt(Proc)
      PROVE  PendingInv'
  <2>1. pc'[Proc] \in {"idle", "lun"} \cup Banks
    BY <1>0, <1>5, FirstBankType DEF SyncGpt, Answer, GoOn, TypeOK
  <2> QED BY <2>1, StepNames, NothingPending
<1>6. ASSUME BlowAR(Proc)
      PROVE  PendingInv'
  <2>1. pc'[Proc] \in {"idle"} \cup Banks
    BY <1>0, <1>6 DEF BlowAR, Answer, GoOn, TypeOK, Banks
  <2> QED BY <2>1, StepNames, NothingPending
<1>7. ASSUME Restart(Proc)
      PROVE  PendingInv'
  BY <1>0, <1>7, StepNames, NothingPending DEF Restart, Dies, TypeOK
<1>8. ASSUME NEW s \in Slots, Reboot(s)
      PROVE  PendingInv'
  BY <1>0, <1>8, StepNames, NothingPending DEF Reboot
<1>9. CASE UNCHANGED vars
  BY <1>9 DEF vars, PendingInv
<1> QED
  BY <1>1, <1>2, <1>3, <1>4, <1>5, <1>6, <1>7, <1>8, <1>9 DEF Next, ProcStep

(* With one process, the GPT entries change only as the call in progress   *)
(* asks, SyncGpt writing what this call made of them, so that a write that *)
(* failed does not come back with a later call; or they are lost, for      *)
(* good, in a call that failed to Load them and does not answer ok.        *)
THEOREM GptChangesAreRequested ==
  ASSUME Procs = {Proc}
  PROVE  Spec => GptChangeIsRequested
<1> DEFINE Requested(p) ==
      gpt' = CASE pc[p] = "gptActivate"   -> Activated(gpt, arg[p])
               [] pc[p] = "gptSuccess"    -> Succeeded(gpt, cur)
               [] pc[p] = "gptUnbootable" -> Unbooted(gpt, arg[p])
               [] OTHER -> gpt
<1> DEFINE LostBy(p) == gpt' = Lost /\ Idle(p) /\ pc'[p] = "idle" /\ reply'[p] # "ok"
<1>1. ASSUME TypeOK, PendingInv, [Next]_vars, gpt' # gpt, Procs = {Proc}
      PROVE  gpt # Lost /\ (Requested(Proc) \/ LostBy(Proc))
  <2>1. CASE SyncGpt(Proc)
    <3>1. pc[Proc] \in GptSteps /\ gpt' = ent[Proc]
      BY <1>1, <2>1 DEF SyncGpt
    <3> QED BY <1>1, <3>1 DEF PendingInv, GptSteps
  <2>2. ASSUME NEW c, Idle(Proc), GptUnreadable(Proc, c, "error")
        PROVE  gpt # Lost /\ LostBy(Proc)
    BY <1>1, <2>2 DEF GptUnreadable, Answer, Idle, TypeOK
  <2>3. CASE Query(Proc)
    <3>1. gpt' \in {gpt, Lost}
      BY <2>3 DEF Query
    <3> QED BY <1>1, <2>3, <3>1 DEF Query, Answer, Idle, TypeOK
  <2>4. \/ SyncGpt(Proc)
        \/ Query(Proc)
        \/ Idle(Proc) /\ \E c : GptUnreadable(Proc, c, "error")
    BY <1>1
    DEF Next, ProcStep, vars, stores, SetActiveBootSlot, SetSlotAsUnbootable,
        MarkBootSuccessful, SwitchBootLun, BlowAR, Restart, Reboot,
        DevInfoBranch, GptBranch
  <2> QED BY <2>1, <2>2, <2>3, <2>4
<1>2. Proc \in Procs
  OBVIOUS
<1>3. TypeOK /\ PendingInv /\ [Next]_vars
        => [gpt' # gpt =>
             /\ gpt # Lost
             /\ \E p \in Procs :
                  \/ gpt' = CASE pc[p] = "gptActivate"   -> Activated(gpt, arg[p])
                             [] pc[p] = "gptSuccess"    -> Succeeded(gpt, cur)
                             [] pc[p] = "gptUnbootable" -> Unbooted(gpt, arg[p])
                             [] OTHER -> gpt
                  \/ gpt' = Lost /\ Idle(p) /\ pc'[p] = "idle" /\ reply'[p] # "ok"]_vars
  BY <1>1, <1>2
<1>4. TypeOK /\ PendingInv /\ [Next]_vars => PendingInv'
  BY StepPending
<1>5. Init => PendingInv
  BY <1>2, InitPending
<1> QED BY <1>3, <1>4, <1>5, TypeCorrect, PTL DEF Spec, GptChangeIsRequested

-----------------------------------------------------------------------------
(***************************************************************************)
(* The refinement: with one process, devinfo and the table the process     *)
(* works with are a SlotRegister.                                          *)
(***************************************************************************)
LEMMA SameTableOps ==
  /\ \A t, s : Register!Activated(t, s) = Activated(t, s)
  /\ \A t, s : Register!Succeeded(t, s) = Succeeded(t, s)
  /\ \A t, s : Register!Unbooted(t, s) = Unbooted(t, s)
  /\ Register!Slots = Slots
BY DEF Register!Activated, Register!Succeeded, Register!Unbooted,
       Register!Other, Register!FreshSlot, Register!Slots,
       Activated, Succeeded, Unbooted, Other, FreshSlot, Slots

(* A devinfo branch is a request on the table the process worked with.     *)
LEMMA BranchIsRequest ==
  ASSUME Procs = {Proc}, TypeOK, SingleInv, NEW s \in Slots,
         NEW readable \in BOOLEAN, Idle(Proc), NEW new \in Tables, NEW next,
         DevInfoBranch(Proc, s, Loaded(Proc, readable), new, next)
  PROVE  /\ Loaded(Proc, readable).slots = WorkingTable
         /\ Register!Request(new)
<1>1. Proc \in Procs
  OBVIOUS
<1>2. Loaded(Proc, readable).slots = WorkingTable
  BY <1>1, LoadedSingle DEF WorkingTable, DevInfoBranch
<1>3. WorkingTable' = new
  <2>1. Loaded(Proc, readable) \in CacheType
    BY <1>1, LoadedType
  <2>2. cache'[Proc] = [Loaded(Proc, readable) EXCEPT !.slots = new]
    BY <1>1 DEF DevInfoBranch, TypeOK
  <2>3. cache'[Proc].valid /\ cache'[Proc].slots = new
    BY <2>1, <2>2 DEF CacheType, DevInfoBranch
  <2> QED BY <2>3 DEF WorkingTable
<1>4. devinfo' \in {devinfo, new}
  BY DEF DevInfoBranch, SyncOk, SyncFails
<1> QED BY <1>2, <1>3, <1>4 DEF Register!Request

(* Loading the cache does not change the table the process works with.     *)
LEMMA LoadIsStutter ==
  ASSUME Procs = {Proc}, TypeOK, SingleInv, NEW readable \in BOOLEAN, Idle(Proc),
         cache' = [cache EXCEPT ![Proc] = Loaded(Proc, readable)],
         UNCHANGED devinfo
  PROVE  UNCHANGED <<devinfo, WorkingTable>>
<1>1. cache'[Proc] = Loaded(Proc, readable)
  BY DEF TypeOK
<1>2. Loaded(Proc, readable).valid \/ ~cache[Proc].valid
  BY DEF Loaded, SingleInv
<1> QED BY <1>1, <1>2, LoadedSingle DEF WorkingTable

(* Losing the cache, by restart or reboot, is a reload.                    *)
LEMMA ForgetIsReload ==
  ASSUME ~cache'[Proc].valid, UNCHANGED devinfo
  PROVE  Register!Reload
BY DEF Register!Reload, WorkingTable

LEMMA StepImplements ==
  ASSUME Procs = {Proc}, TypeOK, SingleInv, [Next]_vars
  PROVE  [Register!RegNext]_<<devinfo, WorkingTable>>
<1>0. Proc \in Procs
  OBVIOUS
<1>1. ASSUME NEW s \in Slots, SetActiveBootSlot(Proc, s)
      PROVE  [Register!RegNext]_<<devinfo, WorkingTable>>
  <2>1. PICK readable \in BOOLEAN :
          LET c == Loaded(Proc, readable) IN
          /\ Idle(Proc)
          /\ \/ DevInfoBranch(Proc, s, c, Activated(c.slots, s), "lun")
             \/ GptBranch(Proc, s, c, Activated(gpt, s), "gptActivate")
             \/ GptUnreadable(Proc, c, "error")
    BY <1>1, ConfigAssumption DEF SetActiveBootSlot, Readings
  <2>2. CASE DevInfoBranch(Proc, s, Loaded(Proc, readable),
                           Activated(Loaded(Proc, readable).slots, s), "lun")
    <3>1. Activated(Loaded(Proc, readable).slots, s) \in Tables
      BY <1>0, LoadedType, TableOps DEF CacheType
    <3>2. Register!Activate(s)
      BY <2>1, <2>2, <3>1, BranchIsRequest, SameTableOps DEF Register!Activate
    <3> QED BY <3>2, SameTableOps DEF Register!RegNext
  <2>3. CASE \/ GptBranch(Proc, s, Loaded(Proc, readable), Activated(gpt, s),
                          "gptActivate")
             \/ GptUnreadable(Proc, Loaded(Proc, readable), "error")
    BY <2>1, <2>3, LoadIsStutter DEF GptBranch, GptUnreadable
  <2> QED BY <2>1, <2>2, <2>3
<1>2. ASSUME NEW s \in Slots, SetSlotAsUnbootable(Proc, s)
      PROVE  [Register!RegNext]_<<devinfo, WorkingTable>>
  <2>1. PICK readable \in BOOLEAN :
          LET c == Loaded(Proc, readable) IN
          /\ Idle(Proc)
          /\ \/ DevInfoBranch(Proc, s, c, Unbooted(c.slots, s), "idle")
             \/ GptBranch(Proc, s, c, Unbooted(gpt, s), "gptUnbootable")
             \/ GptUnreadable(Proc, c, "error")
             \/ Dies(Proc) /\ UNCHANGED devinfo
    BY <1>2, ConfigAssumption DEF SetSlotAsUnbootable, Readings
  <2>2. CASE DevInfoBranch(Proc, s, Loaded(Proc, readable),
                           Unbooted(Loaded(Proc, readable).slots, s), "idle")
    <3>1. Unbooted(Loaded(Proc, readable).slots, s) \in Tables
      BY <1>0, LoadedType, TableOps DEF CacheType
    <3>2. Register!MarkUnbootable(s)
      BY <2>1, <2>2, <3>1, BranchIsRequest, SameTableOps
      DEF Register!MarkUnbootable
    <3> QED BY <3>2, SameTableOps DEF Register!RegNext
  <2>3. CASE \/ GptBranch(Proc, s, Loaded(Proc, readable), Unbooted(gpt, s),
                          "gptUnbootable")
             \/ GptUnreadable(Proc, Loaded(Proc, readable), "error")
    BY <2>1, <2>3, LoadIsStutter DEF GptBranch, GptUnreadable
  <2>4. CASE Dies(Proc) /\ UNCHANGED devinfo
    <3>1. ~cache'[Proc].valid
      BY <1>0, <2>4 DEF Dies, NotLoaded, TypeOK
    <3> QED BY <2>4, <3>1, ForgetIsReload DEF Register!RegNext
  <2> QED BY <2>1, <2>2, <2>3, <2>4
<1>3. ASSUME MarkBootSuccessful(Proc)
      PROVE  [Register!RegNext]_<<devinfo, WorkingTable>>
  <2>1. CASE UNCHANGED <<devinfo, cache>>
    BY <2>1 DEF WorkingTable
  <2>2. CASE \E readable \in BOOLEAN :
               LET c == Loaded(Proc, readable) IN
               /\ Idle(Proc)
               /\ \/ DevInfoBranch(Proc, cur, c, Succeeded(c.slots, cur), FirstBank)
                  \/ GptBranch(Proc, cur, c, Succeeded(gpt, cur), "gptSuccess")
                  \/ GptUnreadable(Proc, c, "error")
    <3>1. PICK readable \in BOOLEAN :
               LET c == Loaded(Proc, readable) IN
               /\ Idle(Proc)
               /\ \/ DevInfoBranch(Proc, cur, c, Succeeded(c.slots, cur), FirstBank)
                  \/ GptBranch(Proc, cur, c, Succeeded(gpt, cur), "gptSuccess")
                  \/ GptUnreadable(Proc, c, "error")
      BY <2>2
    <3>2. cur \in Slots
      BY DEF TypeOK
    <3>3. CASE DevInfoBranch(Proc, cur, Loaded(Proc, readable),
                   Succeeded(Loaded(Proc, readable).slots, cur), FirstBank)
      <4>1. Succeeded(Loaded(Proc, readable).slots, cur) \in Tables
        BY <1>0, <3>2, LoadedType, TableOps DEF CacheType
      <4>2. Register!MarkSuccessful(cur)
        BY <3>1, <3>2, <3>3, <4>1, BranchIsRequest, SameTableOps
        DEF Register!MarkSuccessful
      <4> QED BY <3>2, <4>2, SameTableOps DEF Register!RegNext
    <3>4. CASE \/ GptBranch(Proc, cur, Loaded(Proc, readable),
                            Succeeded(gpt, cur), "gptSuccess")
               \/ GptUnreadable(Proc, Loaded(Proc, readable), "error")
      BY <3>1, <3>4, LoadIsStutter DEF GptBranch, GptUnreadable
    <3> QED BY <3>1, <3>3, <3>4
  <2> QED BY <1>3, <2>1, <2>2, ConfigAssumption DEF MarkBootSuccessful, Readings
<1>4. ASSUME Query(Proc)
      PROVE  [Register!RegNext]_<<devinfo, WorkingTable>>
  <2>1. CASE UNCHANGED <<devinfo, cache>>
    BY <2>1 DEF WorkingTable
  <2>2. CASE /\ Idle(Proc) /\ UNCHANGED devinfo
             /\ \E readable \in BOOLEAN :
                  cache' = [cache EXCEPT ![Proc] = Loaded(Proc, readable)]
    BY <2>2, LoadIsStutter
  <2> QED BY <1>4, <2>1, <2>2, ConfigAssumption DEF Query, Readings, stores
<1>5. ASSUME SyncGpt(Proc) \/ SwitchBootLun(Proc) \/ BlowAR(Proc)
      PROVE  [Register!RegNext]_<<devinfo, WorkingTable>>
  BY <1>5 DEF SyncGpt, SwitchBootLun, BlowAR, WorkingTable
<1>6. ASSUME Restart(Proc)
      PROVE  [Register!RegNext]_<<devinfo, WorkingTable>>
  <2>1. ~cache'[Proc].valid
    BY <1>0, <1>6 DEF Restart, Dies, NotLoaded, TypeOK
  <2> QED BY <1>6, <2>1, ForgetIsReload DEF Restart, stores, Register!RegNext
<1>7. ASSUME NEW s \in Slots, Reboot(s)
      PROVE  [Register!RegNext]_<<devinfo, WorkingTable>>
  <2>1. ~cache'[Proc].valid
    BY <1>0, <1>7 DEF Reboot, NotLoaded
  <2> QED BY <1>7, <2>1, ForgetIsReload DEF Reboot, Register!RegNext
<1>8. CASE UNCHANGED vars
  BY <1>8 DEF vars, WorkingTable
<1> QED
  BY <1>1, <1>2, <1>3, <1>4, <1>5, <1>6, <1>7, <1>8 DEF Next, ProcStep

(* One HAL process and devinfo implement the abstract slot register: every *)
(* change of the disk is a request applied to what the process works with, *)
(* and after a restart it works with what is on disk.                      *)
THEOREM RegisterRefined ==
  ASSUME Procs = {Proc}
  PROVE  Spec => ImplementsRegister
<1>1. Init => Register!RegInit
  BY DEF Init, NotLoaded, WorkingTable, Register!RegInit
<1>2. TypeOK /\ SingleInv /\ [Next]_vars
        => [Register!RegNext]_<<devinfo, WorkingTable>>
  BY StepImplements
<1>3. TypeOK /\ SingleInv /\ [Next]_vars => SingleInv'
  BY StepSingle
<1> QED BY InitSingle, TypeCorrect, <1>1, <1>2, <1>3, PTL
        DEF Spec, ImplementsRegister, Register!RegSpec, Register!regvars
=============================================================================
