-------------------------- MODULE EmvKernel_proofs --------------------------
(***************************************************************************)
(* Proofs about EmvKernel for all cards, terminals, requests and hosts.    *)
(***************************************************************************)
EXTENDS EmvKernel, TLAPS

-----------------------------------------------------------------------------
(* What the session has saved.                                             *)

(* Tags are set one by one, the record stays what it is.                   *)
TagsKept == tlv = [tvr |-> tlv.tvr, tsi |-> tlv.tsi, cvmr |-> tlv.cvmr,
                   arc |-> tlv.arc, cid |-> tlv.cid]

(* Only between the steps of the CVM and of the completion the session is  *)
(* ahead of the TLV.                                                       *)
Ahead == {"entry", "tries", "input", "verify",
          "external", "script71", "gac2", "script72"}

SavedInv ==
  /\ TagsKept
  /\ pc \notin Ahead => tlv.tvr = tvr /\ tlv.tsi = tsi
  /\ pc \in {"risk", "action"} => tlv.cvmr = cvmr

(* Ending the CVM saves everything.                                        *)
LEMMA EndCvmSaves ==
  ASSUME TagsKept, NEW newTvr, NEW newTsi, NEW r, NEW error,
         EndCvm(newTvr, newTsi, r, error)
  PROVE  SavedInv'
BY DEF TagsKept, EndCvm, SavedInv, Ahead

(* The inductive step of SavedInv.                                         *)
LEMMA SavedStep == SavedInv /\ [Next]_vars => SavedInv'
<1> SUFFICES ASSUME SavedInv, [Next]_vars PROVE SavedInv'
  OBVIOUS
<1> USE DEF SavedInv, TagsKept, Ahead
<1>d. Deinit => tlv' = NoTags /\ tvr' = {} /\ tsi' = {}
  BY DEF Deinit
<1>1. CASE Begin
  BY <1>1, <1>d DEF Begin, NoTags
<1>2. CASE End
  BY <1>2, <1>d DEF End, NoTags
<1>3. CASE Withdraw
  BY <1>3 DEF Withdraw, results
<1>4. CASE Detect
  BY <1>4 DEF Detect, GiveUp, results
<1>5. CASE FromPse
  BY <1>5 DEF FromPse, SetList, GiveUp, results
<1>6. CASE FromTerminal
  BY <1>6 DEF FromTerminal, SetList, GiveUp, results
<1>7. CASE Choose
  BY <1>7 DEF Choose, GiveUp, results
<1>8. CASE InitApplication
  BY <1>8 DEF InitApplication, GiveUp, results
<1>9. CASE Authenticate
  BY <1>9 DEF Authenticate, Finish
<1>10. CASE ProcessRestrictions
  BY <1>10 DEF ProcessRestrictions, Finish
<1>f. ASSUME NEW newTvr, NEW error, CvmFails(newTvr, error) PROVE SavedInv'
  BY <1>f, EndCvmSaves DEF CvmFails
<1>s. ASSUME NEW newTvr, CvmSucceeds(newTvr) PROVE SavedInv'
  BY <1>s, EndCvmSaves DEF CvmSucceeds
<1>11. CASE StartCvm
  BY <1>11, EndCvmSaves DEF StartCvm
<1>12. CASE TryEntry
  BY <1>12, <1>f, <1>s, EndCvmSaves DEF TryEntry
<1>13. CASE ReadTries
  BY <1>13, <1>f DEF ReadTries
<1>14. CASE InputPin
  BY <1>14, <1>f, <1>s DEF InputPin
<1>15. CASE VerifyPin
  BY <1>15, <1>s DEF VerifyPin
<1>16. CASE ManageRisk
  BY <1>16 DEF ManageRisk, Finish
<1>17. CASE AnalyseAction
  <2>1. pc' = "processed"
    BY <1>17 DEF AnalyseAction, GiveUp
  <2>2. TagsKept' /\ tlv'.tvr = tvr' /\ tlv'.tsi = tsi'
    <3>1. \/ \E a : tlv' = [tlv EXCEPT !.tvr = tvr', !.tsi = tsi', !.arc = a]
          \/ \E a, c : tlv' = [tvr |-> tvr', tsi |-> tsi',
                               cvmr |-> tlv.cvmr, arc |-> a, cid |-> c]
      BY <1>17 DEF AnalyseAction
    <3>2. ASSUME NEW a,
                 tlv' = [tlv EXCEPT !.tvr = tvr', !.tsi = tsi', !.arc = a]
          PROVE  TagsKept' /\ tlv'.tvr = tvr' /\ tlv'.tsi = tsi'
      BY <3>2
    <3>3. ASSUME NEW a, NEW c,
                 tlv' = [tvr |-> tvr', tsi |-> tsi', cvmr |-> tlv.cvmr,
                         arc |-> a, cid |-> c]
          PROVE  TagsKept' /\ tlv'.tvr = tvr' /\ tlv'.tsi = tsi'
      BY <3>3
    <3> QED
      BY <3>1, <3>2, <3>3
  <2> QED
    BY <2>1, <2>2
<1>18. CASE GoOnline
  BY <1>18 DEF GoOnline
<1>19. CASE ExternalAuthenticate
  BY <1>19 DEF ExternalAuthenticate
<1>20. CASE FirstScript
  BY <1>20 DEF FirstScript
<1>21. CASE SecondGenerate
  BY <1>21 DEF SecondGenerate
<1>22. CASE SecondScript
  BY <1>22 DEF SecondScript
<1>23. CASE UNCHANGED vars
  BY <1>23 DEF vars, results
<1> QED
  BY <1>1, <1>2, <1>3, <1>4, <1>5, <1>6, <1>7, <1>8, <1>9, <1>10, <1>11,
     <1>12, <1>13, <1>14, <1>15, <1>16, <1>17, <1>18, <1>19, <1>20, <1>21,
     <1>22, <1>23 DEF Next, Process, Complete

(* SavedInv holds in every state.                                          *)
LEMMA SavedInvariant == Spec => []SavedInv
<1>1. Init => SavedInv
  BY DEF Init, SavedInv, TagsKept, NoTags
<1> QED
  BY <1>1, SavedStep, PTL DEF Spec

(* What a step leaves to the next, and what the caller and the card are    *)
(* told, is what the session holds.                                        *)
THEOREM SavedStaysCurrent == Spec => []SavedIsCurrent
<1>1. SavedInv => SavedIsCurrent
  BY DEF SavedInv, Ahead, SavedIsCurrent
<1> QED
  BY <1>1, SavedInvariant, PTL

-----------------------------------------------------------------------------
(* The PIN try counter.                                                    *)

(* A PIN that the card will see is entered with a try left; a reset of the *)
(* counter to MaxTries leaves one as well.                                 *)
TriesInv ==
  /\ pc = "input" => Entry.type = "online_pin" \/ tries > 0
  /\ pc = "verify" => tries > 0

(* Ending the CVM leaves the PIN pad and the card alone.                   *)
LEMMA EndCvmLeaves ==
  ASSUME NEW newTvr, NEW newTsi, NEW r, NEW error,
         EndCvm(newTvr, newTsi, r, error)
  PROVE  pc' \in {"risk", "processed"}
BY DEF EndCvm

(* So does a CVM that fails.                                               *)
LEMMA CvmFailsLeaves ==
  ASSUME NEW newTvr, NEW error, CvmFails(newTvr, error)
  PROVE  pc' \in {"entry", "risk", "processed"}
BY EndCvmLeaves DEF CvmFails

(* The inductive step of TriesInv.                                         *)
LEMMA TriesStep == TriesInv /\ [Next]_vars => TriesInv'
<1> SUFFICES ASSUME TriesInv, [Next]_vars PROVE TriesInv'
  OBVIOUS
<1> USE DEF TriesInv
<1>1. CASE Begin \/ End
  BY <1>1 DEF Begin, End
<1>2. CASE Withdraw
  BY <1>2 DEF Withdraw, Entry, Card, people
<1>3. CASE Detect \/ FromPse \/ FromTerminal \/ Choose
  BY <1>3 DEF Detect, FromPse, FromTerminal, SetList, Choose, GiveUp
<1>4. CASE InitApplication \/ Authenticate \/ ProcessRestrictions
  BY <1>4 DEF InitApplication, Authenticate, ProcessRestrictions, Finish,
              GiveUp
<1>5. CASE StartCvm
  BY <1>5, EndCvmLeaves DEF StartCvm
<1>6. CASE TryEntry
  <2>1. CASE pc' = "input"
    <3>1. Entry.type = "online_pin" /\ UNCHANGED <<next, card>>
      BY <1>6, <2>1, EndCvmLeaves, CvmFailsLeaves
      DEF TryEntry, CvmSucceeds, people
    <3> QED
      BY <3>1, <2>1 DEF Entry, Card
  <2>2. CASE pc' # "input"
    BY <1>6, <2>2, EndCvmLeaves, CvmFailsLeaves DEF TryEntry, CvmSucceeds
  <2> QED
    BY <2>1, <2>2
<1>7. CASE ReadTries
  BY <1>7, CvmFailsLeaves DEF ReadTries, Answered, reader
<1>8. CASE InputPin
  <2>1. CASE pc' = "verify"
    <3>1. Entry.type \in OfflinePins /\ UNCHANGED reader
      BY <1>8, <2>1, EndCvmLeaves, CvmFailsLeaves
      DEF InputPin, CvmSucceeds, Answered
    <3>2. Entry.type # "online_pin"
      BY <3>1 DEF OfflinePins
    <3> QED
      BY <1>8, <2>1, <3>1, <3>2 DEF InputPin, reader
  <2>2. CASE pc' # "verify"
    BY <1>8, <2>2, EndCvmLeaves, CvmFailsLeaves DEF InputPin, CvmSucceeds
  <2> QED
    BY <2>1, <2>2
<1>9. CASE VerifyPin
  BY <1>9, EndCvmLeaves DEF VerifyPin, CvmSucceeds
<1>10. CASE ManageRisk \/ AnalyseAction
  BY <1>10 DEF ManageRisk, Finish, AnalyseAction, GiveUp
<1>11. CASE GoOnline \/ Complete
  BY <1>11 DEF GoOnline, Complete, ExternalAuthenticate, FirstScript,
               SecondGenerate, SecondScript
<1>12. CASE UNCHANGED vars
  BY <1>12 DEF vars, people, reader, Entry, Card
<1> QED
  BY <1>1, <1>2, <1>3, <1>4, <1>5, <1>6, <1>7, <1>8, <1>9, <1>10, <1>11,
     <1>12 DEF Next, Process

(* No PIN is sent to a card that has no tries left.                        *)
THEOREM PinStaysWithinTries == Spec => []PinNotBeyondTries
<1>1. Init => TriesInv
  BY DEF Init, TriesInv
<1>2. TriesInv => PinNotBeyondTries
  BY DEF TriesInv, PinNotBeyondTries
<1> QED
  BY <1>1, <1>2, TriesStep, PTL DEF Spec

-----------------------------------------------------------------------------
(* The authorisation response code.                                        *)

(* Before the action analysis, and after it when the transaction is to go  *)
(* online, the TLV holds no code; from the host's answer on it is the      *)
(* host's.                                                                 *)
ArcInv ==
  /\ TagsKept
  /\ pc \notin {"processed", "completed", "external", "script71", "gac2",
                "script72"} => ~need_online /\ tlv.arc = Missing
  /\ pc = "processed" /\ need_online => tlv.arc = Missing
  /\ pc \in {"external", "script71", "gac2"} => tlv.arc = host.arc

(* The inductive step of ArcInv.                                           *)
LEMMA ArcStep == ArcInv /\ SavedInv' /\ [Next]_vars => ArcInv'
<1> SUFFICES ASSUME ArcInv, SavedInv', [Next]_vars PROVE ArcInv'
  OBVIOUS
<1> USE DEF ArcInv
<1>k. TagsKept'
  BY DEF SavedInv
<1>d. Deinit => tlv'.arc = Missing /\ need_online' = FALSE
  BY DEF Deinit, NoTags
<1>1. CASE Begin \/ End
  BY <1>1, <1>d, <1>k DEF Begin, End
<1>2. CASE Withdraw
  BY <1>2, <1>k DEF Withdraw, results, people
<1>s. ASSUME UNCHANGED need_online, tlv'.arc = tlv.arc,
             pc \notin {"processed", "completed", "external", "script71",
                        "gac2", "script72"},
             pc' \notin {"completed", "external", "script71", "gac2",
                         "script72"}
      PROVE  ArcInv'
  BY <1>s, <1>k
<1>3. CASE Detect \/ FromPse \/ FromTerminal \/ Choose \/ InitApplication
  BY <1>3, <1>s DEF Detect, FromPse, FromTerminal, SetList, Choose,
                    InitApplication, GiveUp, results
<1>e. ASSUME NEW newTvr, NEW newTsi, NEW r, NEW error,
             EndCvm(newTvr, newTsi, r, error)
      PROVE  tlv'.arc = tlv.arc
  BY <1>e DEF EndCvm, TagsKept
<1>f. ASSUME NEW newTvr, NEW error, CvmFails(newTvr, error)
      PROVE  tlv'.arc = tlv.arc
  BY <1>f, <1>e DEF CvmFails
<1>4. CASE Authenticate \/ ProcessRestrictions \/ ManageRisk
  <2>1. tlv'.arc = tlv.arc
    BY <1>4 DEF Authenticate, ProcessRestrictions, ManageRisk, Finish,
                TagsKept
  <2> QED
    BY <1>4, <1>s, <2>1 DEF Authenticate, ProcessRestrictions, ManageRisk,
                            Finish
<1>5. CASE StartCvm
  BY <1>5, <1>s, <1>e, EndCvmLeaves DEF StartCvm
<1>6. CASE TryEntry
  BY <1>6, <1>s, <1>e, <1>f, EndCvmLeaves, CvmFailsLeaves
  DEF TryEntry, CvmSucceeds
<1>7. CASE ReadTries
  BY <1>7, <1>s, <1>f, CvmFailsLeaves DEF ReadTries
<1>8. CASE InputPin
  BY <1>8, <1>s, <1>e, <1>f, EndCvmLeaves, CvmFailsLeaves
  DEF InputPin, CvmSucceeds
<1>9. CASE VerifyPin
  BY <1>9, <1>s, <1>e, EndCvmLeaves DEF VerifyPin, CvmSucceeds
<1>10. CASE AnalyseAction
  <2>1. pc' = "processed"
    BY <1>10 DEF AnalyseAction, GiveUp
  <2>2. need_online' => RequestedAc = "ARQC"
    BY <1>10 DEF AnalyseAction
  <2>3. RequestedAc = "ARQC" => tlv'.arc = tlv.arc
    <3> SUFFICES ASSUME RequestedAc = "ARQC" PROVE tlv'.arc = tlv.arc
      OBVIOUS
    <3> DEFINE arc == CASE RequestedAc = "AAC" -> "Z1"
                        [] RequestedAc = "TC" -> "Y1"
                        [] RequestedAc = "ARQC" -> tlv.arc
    <3>1. arc = tlv.arc
      OBVIOUS
    <3>2. \/ tlv' = [tlv EXCEPT !.tvr = tvr', !.tsi = tsi', !.arc = arc]
          \/ \E c : tlv' = [tvr |-> tvr', tsi |-> tsi', cvmr |-> tlv.cvmr,
                            arc |-> arc, cid |-> c]
      BY <1>10 DEF AnalyseAction
    <3> HIDE DEF arc
    <3>3. CASE tlv' = [tlv EXCEPT !.tvr = tvr', !.tsi = tsi', !.arc = arc]
      BY <3>1, <3>3 DEF TagsKept
    <3> QED
      BY <3>1, <3>2, <3>3
  <2>4. tlv.arc = Missing
    BY <1>10 DEF AnalyseAction
  <2> QED
    BY <1>k, <2>1, <2>2, <2>3, <2>4
<1>11. CASE GoOnline
  <2>1. PICK h \in Hosts :
          /\ host' = h
          /\ tlv' = [tlv EXCEPT !.arc = IF h.arc = Missing THEN @ ELSE h.arc]
    BY <1>11 DEF GoOnline
  <2>2. tlv'.arc = h.arc
    BY <1>11, <2>1 DEF GoOnline, TagsKept
  <2> QED
    BY <1>11, <1>k, <2>1, <2>2 DEF GoOnline
<1>12. CASE ExternalAuthenticate \/ FirstScript
  BY <1>12, <1>k DEF ExternalAuthenticate, FirstScript, people
<1>13. CASE SecondGenerate \/ SecondScript
  BY <1>13, <1>k DEF SecondGenerate, SecondScript
<1>14. CASE UNCHANGED vars
  BY <1>14, <1>k DEF vars, people, results
<1> QED
  BY <1>1, <1>2, <1>3, <1>4, <1>5, <1>6, <1>7, <1>8, <1>9, <1>10, <1>11,
     <1>12, <1>13, <1>14 DEF Next, Process, Complete

(* The response code that the second GENERATE AC tells the card is the     *)
(* host's: none is left over from the analysis or an earlier transaction.  *)
THEOREM ArcStaysTheHosts == Spec => []ArcIsFromHost
<1>1. Init => ArcInv
  BY DEF Init, ArcInv, TagsKept, NoTags
<1>2. ArcInv => ArcIsFromHost
  BY DEF ArcInv, ArcIsFromHost
<1> QED
  BY <1>1, <1>2, ArcStep, SavedInvariant, PTL DEF Spec

-----------------------------------------------------------------------------
(* The verification of the cardholder.                                     *)

Looping == {"entry", "tries", "input", "verify"}

NoneMetBefore(n) ==
  \A i \in DOMAIN Card.cvm : i < n => ~Meets(Card.cvm[i].condition)

(* While the list is gone through nothing is decided, and as long as there *)
(* is no error no entry was tried; what the step leaves is its verdict.    *)
CvmInv ==
  /\ pc \in {"pse", "aids", "choose", "init", "auth", "restrict", "cvm"}
       => card \in DOMAIN Cards
  /\ pc \in Looping =>
       /\ Card.cvm \in Seq(CvmRule) /\ next \in Nat
       /\ cvmr = Result(NoEntry, "unknown") /\ "cardholder_failed" \notin tvr
       /\ ret = "OK" => NoneMetBefore(next)
  /\ pc \in {"tries", "verify"} => Entry.type \in OfflinePins
  /\ CvmVerdict

(* An entry that failed either ends the step, and with it the process, or  *)
(* leaves its error for the end of the list.                               *)
LEMMA CvmFailsKeeps ==
  ASSUME CvmInv, pc \in Looping, NEW newTvr, NEW error,
         CvmFails(newTvr, error), error # "OK", UNCHANGED <<people, aip>>,
         "cardholder_failed" \notin newTvr
  PROVE  CvmInv'
<1>1. CASE Entry.continue
  BY <1>1 DEF CvmInv, CvmFails, Looping, people, Card, CvmVerdict
<1>2. CASE ~Entry.continue
  BY <1>2 DEF CvmInv, CvmFails, EndCvm, Looping, people, Card, CvmVerdict
<1> QED
  BY <1>1, <1>2

(* An entry that succeeded is the verdict.                                 *)
LEMMA CvmSucceedsKeeps ==
  ASSUME CvmInv, NEW newTvr, CvmSucceeds(newTvr),
         "cardholder_failed" \notin newTvr,
         Entry.type \in OfflinePins => verified',
         Entry.type = "online_pin" => "input_online_pin" \in newTvr
  PROVE  CvmInv'
<1>1. pc' = "risk" /\ tvr' = newTvr /\ cvmr' = Result(Entry, "success")
  BY DEF CvmSucceeds, EndCvm
<1>2. cvmr'.result = "success" /\ cvmr'.type = Entry.type
  BY <1>1 DEF Result
<1>3. CvmVerdict'
  BY <1>1, <1>2 DEF CvmVerdict
<1> QED
  BY <1>1, <1>3 DEF CvmInv, Looping

(* A step outside the analysis of the cardholder and of the risk.          *)
LEMMA CvmApart ==
  ASSUME CvmInv, pc' \notin Looping \cup {"risk", "action"},
         pc' \in {"pse", "aids", "choose", "init", "auth", "restrict", "cvm"}
           => card' \in DOMAIN Cards
  PROVE  CvmInv'
BY DEF CvmInv, Looping, CvmVerdict

(* Risk management clears and sets its own bits only.                      *)
LEMMA RiskKeeps ==
  ASSUME ManageRisk
  PROVE  \E newTvr, newTsi :
           /\ Finish(newTvr, newTsi, "OK", "action")
           /\ \A b : b \notin RiskBits \cup {"new_card"} =>
                (b \in newTvr <=> b \in tvr)
<1> DEFINE cleared == tvr \ (RiskBits \cup {"new_card"})
           unset   == tsi \ {"terminal_risk_management"}
<1>1. CASE Finish(cleared, unset, "OK", "action")
  BY <1>1
<1>2. ASSUME NEW added \in SUBSET (RiskBits \cup {"new_card"}), NEW newTsi,
             Finish(cleared \cup added, newTsi, "OK", "action")
      PROVE  \E newTvr, tsi1 :
               /\ Finish(newTvr, tsi1, "OK", "action")
               /\ \A b : b \notin RiskBits \cup {"new_card"} =>
                    (b \in newTvr <=> b \in tvr)
  <2>1. \A b : b \notin RiskBits \cup {"new_card"} =>
          (b \in cleared \cup added <=> b \in tvr)
    OBVIOUS
  <2> HIDE DEF cleared
  <2> QED
    BY <1>2, <2>1
<1>3. \/ Finish(cleared, unset, "OK", "action")
      \/ \E added \in SUBSET (RiskBits \cup {"new_card"}) : \E newTsi :
           Finish(cleared \cup added, newTsi, "OK", "action")
  <2> SUFFICES ASSUME ~Finish(cleared, unset, "OK", "action")
               PROVE  \E added \in SUBSET (RiskBits \cup {"new_card"}) :
                        \E newTsi :
                        Finish(cleared \cup added, newTsi, "OK", "action")
    OBVIOUS
  <2> DEFINE forced == IF Requested.force THEN {"force_online"} ELSE {}
             amount == IF Requested.amount >= Terminal.floor_limit
                       THEN {"amount_lower_limit"} ELSE {}
  <2>1. PICK random \in SUBSET {"random_online"},
             velocity \in {VelocityBits \cup NewCard, BothLimits,
                          BothLimits \cup NewCard} :
          Finish(cleared \cup forced \cup amount \cup random \cup velocity,
                 unset \cup {"terminal_risk_management"}, "OK", "action")
    BY DEF ManageRisk
  <2>2. velocity \subseteq BothLimits \cup {"new_card"}
    BY DEF VelocityBits, NewCard
  <2> DEFINE added == forced \cup amount \cup random \cup velocity
  <2>3. added \in SUBSET (RiskBits \cup {"new_card"})
    BY <2>2 DEF RiskBits, BothLimits
  <2>4. cleared \cup forced \cup amount \cup random \cup velocity
          = cleared \cup added
    OBVIOUS
  <2> HIDE DEF cleared, added
  <2> QED
    BY <2>1, <2>3, <2>4
<1> HIDE DEF cleared, unset
<1> QED
  BY <1>1, <1>2, <1>3

(* The inductive step of CvmInv.                                           *)
LEMMA CvmStep == CvmInv /\ [Next]_vars => CvmInv'
<1> SUFFICES ASSUME CvmInv, [Next]_vars PROVE CvmInv'
  OBVIOUS
<1>1. CASE Begin \/ End
  BY <1>1, CvmApart DEF Begin, End, Looping
<1>2. CASE Withdraw
  BY <1>2 DEF Withdraw, people, chosen, results, history, CvmInv, CvmVerdict,
              NoneMetBefore, Card, Entry, Meets, Cash, IsAtmCash,
              IsManualCash, IsCashback, Requested, Terminal
<1>3. CASE Detect
  BY <1>3, CvmApart DEF Detect, GiveUp, Looping
<1>4. CASE FromPse \/ FromTerminal \/ Choose \/ InitApplication
  BY <1>4, CvmApart DEF FromPse, FromTerminal, SetList, Choose,
                        InitApplication, GiveUp, Looping, people, CvmInv
<1>5. CASE Authenticate \/ ProcessRestrictions
  BY <1>5, CvmApart DEF Authenticate, ProcessRestrictions, Finish, Looping,
                        people, CvmInv
<1>6. CASE StartCvm
  <2>1. CASE "card_holder" \notin aip
    BY <1>6, <2>1 DEF StartCvm, EndCvm, chosen, CvmInv, CvmVerdict, Looping
  <2>2. CASE "card_holder" \in aip /\ Card.cvm \in {Missing, <<>>}
    BY <1>6, <2>2, CvmApart DEF StartCvm, EndCvm, Looping
  <2>3. CASE "card_holder" \in aip /\ Card.cvm \notin {Missing, <<>>}
    <3>1. Card.cvm \in Seq(CvmRule)
      BY <1>6, <2>3, EmvAssumption DEF StartCvm, CvmInv, Card
    <3>2. /\ cvmr' = Result(NoEntry, "unknown")
          /\ tvr' = tvr \ CvmBits /\ next' = 1 /\ pc' = "entry"
          /\ card' = card
      BY <1>6, <2>3 DEF StartCvm, people
    <3>3. Card' = Card
      BY <3>2 DEF Card
    <3>4. NoneMetBefore(1)'
      BY <3>1, <3>3 DEF NoneMetBefore
    <3> QED
      BY <3>1, <3>2, <3>3, <3>4 DEF CvmInv, CvmVerdict, Looping, CvmBits
  <2> QED
    BY <2>1, <2>2, <2>3
<1>7. CASE TryEntry
  <2>1. /\ pc = "entry" /\ UNCHANGED <<people, aip>>
        /\ Card.cvm \in Seq(CvmRule) /\ next \in Nat
        /\ "cardholder_failed" \notin tvr
        /\ cvmr = Result(NoEntry, "unknown")
        /\ ret = "OK" => NoneMetBefore(next)
    BY <1>7 DEF TryEntry, chosen, CvmInv, Looping
  <2>s. Card' = Card /\ \A c : Meets(c)' <=> Meets(c)
    BY <2>1 DEF Card, people, Meets, Cash, IsAtmCash, IsManualCash,
                IsCashback, Requested, Terminal
  <2>2. CASE /\ next > Len(Card.cvm)
             /\ EndCvm(tvr, tsi \cup {"cardholder_verification"}, cvmr, ret)
    <3>1. CASE ret = "OK"
      <4>1. \A i \in DOMAIN Card.cvm : ~Meets(Card.cvm[i].condition)
        BY <2>1, <2>2, <3>1 DEF NoneMetBefore
      <4>2. cvmr' = cvmr /\ pc' = "risk"
        BY <2>2, <3>1 DEF EndCvm
      <4>3. cvmr.result = "unknown"
        BY <2>1 DEF Result
      <4>4. CvmVerdict'
        BY <4>1, <4>2, <4>3, <2>s DEF CvmVerdict
      <4> QED
        BY <4>2, <4>4 DEF CvmInv, Looping
    <3>2. CASE ret # "OK"
      BY <2>2, <3>2, CvmApart DEF EndCvm, Looping
    <3> QED
      BY <3>1, <3>2
  <2>3. CASE ~Meets(Entry.condition) /\ next' = next + 1
             /\ UNCHANGED <<pc, ret, tvr, cvmr>>
    <3>1. ret = "OK" => NoneMetBefore(next + 1)
      BY <2>1, <2>3 DEF NoneMetBefore, Entry
    <3>2. ret' = "OK" => NoneMetBefore(next)'
      BY <3>1, <2>3, <2>s DEF NoneMetBefore
    <3> QED
      BY <2>1, <2>3, <2>s, <3>2 DEF CvmInv, CvmVerdict, Looping
  <2>4. CASE /\ Entry.type \in OfflinePins \cup {"online_pin"}
             /\ pc' = IF Entry.type = "online_pin" THEN "input" ELSE "tries"
             /\ UNCHANGED <<ret, next, tvr, cvmr>>
    <3>1. ret' = "OK" => NoneMetBefore(next)'
      BY <2>1, <2>4, <2>s DEF NoneMetBefore
    <3>2. Entry' = Entry
      BY <2>4, <2>s DEF Entry
    <3> QED
      BY <2>1, <2>4, <2>s, <3>1, <3>2 DEF CvmInv, CvmVerdict, Looping
  <2>5. CASE /\ Entry.type \in {"signature", "no_cvm"}
             /\ CvmSucceeds(tvr)
    BY <2>1, <2>5, CvmSucceedsKeeps DEF OfflinePins
  <2>6. CASE CvmFails(tvr, "ERROR") \/ CvmFails(tvr, "CVM_FAILED")
    BY <2>1, <2>6, CvmFailsKeeps DEF Looping
  <2> QED
    BY <1>7, <2>2, <2>3, <2>4, <2>5, <2>6 DEF TryEntry
<1>8. CASE /\ pc \in Looping /\ pc' \in {"tries", "input", "verify"}
           /\ UNCHANGED <<people, aip, ret, next, tvr, cvmr>>
           /\ Entry.type \in OfflinePins
  <2>1. Card' = Card /\ Entry' = Entry /\ \A c : Meets(c)' <=> Meets(c)
    BY <1>8 DEF Card, Entry, people, Meets, Cash, IsAtmCash, IsManualCash,
                IsCashback, Requested, Terminal
  <2>2. ret' = "OK" => NoneMetBefore(next)'
    BY <1>8, <2>1 DEF CvmInv, NoneMetBefore
  <2> QED
    BY <1>8, <2>1, <2>2 DEF CvmInv, CvmVerdict, Looping
<1>9. CASE ReadTries
  <2>1. Entry.type \in OfflinePins /\ "cardholder_failed" \notin tvr
    BY <1>9 DEF ReadTries, CvmInv, Looping
  <2>2. UNCHANGED <<people, aip>> /\ pc \in Looping
    BY <1>9 DEF ReadTries, chosen, Looping
  <2>3. ASSUME NEW newTvr, NEW error, CvmFails(newTvr, error),
               error # "OK", "cardholder_failed" \notin newTvr
        PROVE  CvmInv'
    BY <2>2, <2>3, CvmFailsKeeps
  <2> QED
    BY <1>8, <1>9, <2>1, <2>2, <2>3 DEF ReadTries
<1>10. CASE InputPin
  <2>1. "cardholder_failed" \notin tvr
    BY <1>10 DEF InputPin, CvmInv, Looping
  <2>2. UNCHANGED <<people, aip>> /\ pc \in Looping
    BY <1>10 DEF InputPin, chosen, Looping
  <2>3. ASSUME NEW newTvr, NEW error, CvmFails(newTvr, error),
               error # "OK", "cardholder_failed" \notin newTvr
        PROVE  CvmInv'
    BY <2>2, <2>3, CvmFailsKeeps
  <2>4. CASE /\ Entry.type = "online_pin"
             /\ CvmSucceeds(tvr \cup {"input_online_pin"})
    BY <2>1, <2>4, CvmSucceedsKeeps DEF OfflinePins
  <2> QED
    BY <1>8, <1>10, <2>1, <2>2, <2>3, <2>4 DEF InputPin
<1>11. CASE VerifyPin
  <2>1. Entry.type \in OfflinePins /\ "cardholder_failed" \notin tvr
    BY <1>11 DEF VerifyPin, CvmInv, Looping
  <2>2. CASE pin = "right" /\ tries > 0 /\ Checked /\ CvmSucceeds(tvr)
    BY <2>1, <2>2, CvmSucceedsKeeps DEF Checked, OfflinePins
  <2> QED
    BY <1>8, <1>11, <2>1, <2>2 DEF VerifyPin, chosen, Looping
<1>12. CASE ManageRisk
  <2>1. PICK newTvr, newTsi :
          /\ Finish(newTvr, newTsi, "OK", "action")
          /\ "cardholder_failed" \in newTvr => "cardholder_failed" \in tvr
          /\ "input_online_pin" \in tvr => "input_online_pin" \in newTvr
    BY <1>12, RiskKeeps DEF RiskBits
  <2>2. /\ pc = "risk" /\ pc' = "action" /\ tvr' = newTvr
        /\ UNCHANGED <<people, aip, cvmr, verified>>
    BY <1>12, <2>1 DEF ManageRisk, Finish, chosen, history
  <2>3. Card' = Card /\ \A c : Meets(c)' <=> Meets(c)
    BY <2>2 DEF Card, people, Meets, Cash, IsAtmCash, IsManualCash,
                IsCashback, Requested, Terminal
  <2>4. CvmVerdict'
    BY <2>1, <2>2, <2>3 DEF CvmInv, CvmVerdict
  <2> QED
    BY <2>2, <2>4 DEF CvmInv, Looping
<1>13. CASE AnalyseAction
  BY <1>13, CvmApart DEF AnalyseAction, GiveUp, Looping
<1>14. CASE GoOnline \/ Complete
  BY <1>14, CvmApart DEF GoOnline, Complete, ExternalAuthenticate,
                         FirstScript, SecondGenerate, SecondScript, Looping
<1>15. CASE UNCHANGED vars
  BY <1>15 DEF vars, people, chosen, results, history, CvmInv, CvmVerdict,
               NoneMetBefore, Card, Entry, Meets, Cash, IsAtmCash,
               IsManualCash, IsCashback, Requested, Terminal
<1> QED
  BY <1>1, <1>2, <1>3, <1>4, <1>5, <1>6, <1>7, <1>9, <1>10, <1>11, <1>12,
     <1>13, <1>14, <1>15 DEF Next, Process

(* The process goes on past the verification of the cardholder only with a *)
(* method that has succeeded, or if no method's condition was met.         *)
THEOREM CvmVerdictHolds == Spec => []CvmVerdict
<1>1. Init => CvmInv
  BY DEF Init, CvmInv, CvmVerdict, Looping
<1>2. CvmInv => CvmVerdict
  BY DEF CvmInv
<1> QED
  BY <1>1, <1>2, CvmStep, PTL DEF Spec

-----------------------------------------------------------------------------
(* Nothing that a step has found is lost before the first GENERATE AC.     *)

AuthFacts == IF Method = "none" THEN {"not_executed"} ELSE {}

LimitFacts ==
  DatedBits \cup (IF NeededRights \subseteq Card.auc THEN {}
                  ELSE {"unallowed_service"})

RiskFacts ==
  IF "exec_risk" \notin Card.aip THEN {}
  ELSE (IF Requested.force THEN {"force_online"} ELSE {})
         \cup (IF Requested.amount >= Terminal.floor_limit
               THEN {"amount_lower_limit"} ELSE {})

AfterLimits == {"cvm", "risk", "action"} \cup Looping
AfterAuth   == {"restrict"} \cup AfterLimits

FactsInv ==
  /\ pc \in {"auth"} \cup AfterAuth => aip = Card.aip
  /\ pc \in AfterAuth => AuthFacts \subseteq tvr
  /\ pc \in AfterLimits => LimitFacts \subseteq tvr
  /\ pc = "action" => RiskFacts \subseteq tvr

(* The facts are those of who takes part.                                  *)
LEMMA FactsStay ==
  ASSUME UNCHANGED <<people, aip>>
  PROVE  /\ Card' = Card /\ Requested' = Requested /\ Terminal' = Terminal
         /\ AuthFacts' = AuthFacts /\ LimitFacts' = LimitFacts
         /\ RiskFacts' = RiskFacts /\ Facts' = Facts
<1>1. Card' = Card /\ Requested' = Requested /\ Terminal' = Terminal
  BY DEF people, Card, Requested, Terminal
<1>2. Method' = Method
  BY <1>1 DEF Method
<1>3. DatedBits' = DatedBits /\ NeededRights' = NeededRights
  BY <1>1 DEF DatedBits, NeededRights, Domestic, IsAtmTerminal
<1> QED
  BY <1>1, <1>2, <1>3 DEF AuthFacts, LimitFacts, RiskFacts, Facts

(* Each step has fields of its own.                                        *)
LEMMA FactsFields ==
  AuthFacts \subseteq {"not_executed"} /\ LimitFacts \subseteq LimitBits
BY DEF AuthFacts, LimitFacts, DatedBits, LimitBits

(* A step of the CVM that keeps the fields of the others keeps the facts.  *)
LEMMA FactsKept ==
  ASSUME FactsInv, UNCHANGED <<people, aip>>, pc \in AfterLimits,
         pc' \in AfterLimits \ {"action"} \/ pc' = "processed",
         \A b \in LimitBits \cup {"not_executed"} : b \in tvr => b \in tvr'
  PROVE  FactsInv'
BY FactsStay, FactsFields DEF FactsInv, AfterLimits, AfterAuth, Looping

(* The inductive step of FactsInv.                                         *)
LEMMA FactsStep == FactsInv /\ [Next]_vars => FactsInv'
<1> SUFFICES ASSUME FactsInv, [Next]_vars PROVE FactsInv'
  OBVIOUS
<1> USE DEF AfterLimits, AfterAuth, Looping
<1>a. pc' \notin {"auth"} \cup AfterAuth => FactsInv'
  BY DEF FactsInv
<1>1. CASE Begin \/ End
  BY <1>1, <1>a DEF Begin, End
<1>2. CASE Withdraw
  BY <1>2, FactsStay DEF Withdraw, chosen, results, FactsInv
<1>3. CASE Detect \/ FromPse \/ FromTerminal \/ Choose
  BY <1>3, <1>a DEF Detect, FromPse, FromTerminal, SetList, Choose, GiveUp
<1>4. CASE InitApplication
  BY <1>4 DEF InitApplication, GiveUp, FactsInv, people, Card
<1>5. CASE Authenticate
  <2>1. UNCHANGED <<people, aip>> /\ pc' \in {"restrict", "processed"}
    BY <1>5 DEF Authenticate, Finish
  <2>2. pc = "auth" /\ (Method = "none" => "not_executed" \in tvr')
    BY <1>5 DEF Authenticate, Finish
  <2> QED
    BY <2>1, <2>2, FactsStay DEF FactsInv, AuthFacts
<1>6. CASE ProcessRestrictions
  <2>1. /\ UNCHANGED <<people, aip>> /\ pc' \in {"cvm", "processed"}
        /\ pc = "restrict"
    BY <1>6 DEF ProcessRestrictions, Finish, chosen
  <2>2. /\ "not_executed" \in tvr => "not_executed" \in tvr'
        /\ pc' = "cvm" => LimitFacts \subseteq tvr'
    BY <1>6 DEF ProcessRestrictions, Finish, LimitFacts, LimitBits
  <2> QED
    BY <2>1, <2>2, FactsStay DEF FactsInv, AuthFacts
<1>e. ASSUME NEW newTvr, NEW newTsi, NEW r, NEW error,
             EndCvm(newTvr, newTsi, r, error)
      PROVE  tvr' = newTvr /\ pc' \in {"risk", "processed"}
  BY <1>e DEF EndCvm
<1>f. ASSUME NEW newTvr, NEW error, CvmFails(newTvr, error)
      PROVE  /\ tvr' = newTvr \/ tvr' = newTvr \cup {"cardholder_failed"}
             /\ pc' \in {"entry", "risk", "processed"}
  BY <1>f DEF CvmFails, EndCvm
<1>s. ASSUME NEW newTvr, CvmSucceeds(newTvr)
      PROVE  tvr' = newTvr /\ pc' \in {"risk", "processed"}
  BY <1>s DEF CvmSucceeds, EndCvm
<1>7. CASE StartCvm
  <2>1. UNCHANGED <<people, aip>> /\ pc = "cvm"
        /\ pc' \in {"entry", "risk", "processed"}
    BY <1>7, <1>e DEF StartCvm, chosen
  <2>2. \A b \in LimitBits \cup {"not_executed"} : b \in tvr => b \in tvr'
    BY <1>7, <1>e DEF StartCvm, CvmBits, LimitBits
  <2> QED
    BY <2>1, <2>2, FactsKept
<1>8. CASE TryEntry \/ ReadTries \/ InputPin \/ VerifyPin
  <2>1. UNCHANGED <<people, aip>>
    BY <1>8 DEF TryEntry, ReadTries, InputPin, VerifyPin, chosen
  <2>2. pc \in Looping /\ pc' \in Looping \cup {"risk", "processed"}
    BY <1>8, <1>e, <1>f, <1>s DEF TryEntry, ReadTries, InputPin, VerifyPin
  <2>3. \A b : b \in tvr => b \in tvr'
    BY <1>8, <1>e, <1>f, <1>s DEF TryEntry, ReadTries, InputPin, VerifyPin
  <2> QED
    BY <2>1, <2>2, <2>3, FactsKept
<1>9. CASE ManageRisk
  <2>1. PICK newTvr, newTsi :
          /\ Finish(newTvr, newTsi, "OK", "action")
          /\ \A b : b \notin RiskBits \cup {"new_card"} =>
               (b \in newTvr <=> b \in tvr)
    BY <1>9, RiskKeeps
  <2>2. UNCHANGED <<people, aip>> /\ pc = "risk" /\ pc' = "action"
        /\ tvr' = newTvr
    BY <1>9, <2>1 DEF ManageRisk, Finish, chosen
  <2>3. AuthFacts \cup LimitFacts \subseteq tvr'
    BY <2>1, <2>2, FactsFields DEF FactsInv, RiskBits, LimitBits
  <2>4. RiskFacts \subseteq tvr'
    BY <1>9, <2>2 DEF ManageRisk, Finish, RiskFacts, FactsInv
  <2> QED
    BY <2>2, <2>3, <2>4, FactsStay DEF FactsInv
<1>10. CASE AnalyseAction
  BY <1>10, <1>a DEF AnalyseAction, GiveUp
<1>11. CASE GoOnline \/ Complete
  BY <1>11, <1>a DEF GoOnline, Complete, ExternalAuthenticate, FirstScript,
                     SecondGenerate, SecondScript
<1>12. CASE UNCHANGED vars
  BY <1>12, FactsStay DEF vars, chosen, results, FactsInv
<1> QED
  BY <1>1, <1>2, <1>3, <1>4, <1>5, <1>6, <1>7, <1>8, <1>9, <1>10, <1>11,
     <1>12 DEF Next, Process

(* The caller goes online only if the first GENERATE AC asked for it, and  *)
(* then the card has not approved offline.                                 *)
Online == {"external", "script71", "gac2"}
OnlineInv ==
  /\ pc \notin Online \cup {"processed", "script72", "completed"}
       => ~need_online
  /\ pc \in Online => need_online /\ ret = "OK"
  /\ pc \in Online \cup {"processed"} /\ need_online /\ ret = "OK"
       => tlv.cid # "TC"

(* The inductive step of OnlineInv.                                        *)
LEMMA OnlineStep == SavedInv /\ OnlineInv /\ [Next]_vars => OnlineInv'
<1> SUFFICES ASSUME SavedInv, OnlineInv, [Next]_vars PROVE OnlineInv'
  OBVIOUS
<1> USE DEF Online
<1>e. ASSUME ~need_online, UNCHANGED need_online, pc' \notin Online
      PROVE  OnlineInv'
  BY <1>e DEF OnlineInv
<1>1. CASE Begin \/ End
  BY <1>1 DEF Begin, End, Deinit, OnlineInv
<1>2. CASE Withdraw
  BY <1>2 DEF Withdraw, results, OnlineInv
<1>3. CASE Detect \/ FromPse \/ FromTerminal \/ Choose \/ InitApplication
  BY <1>3, <1>e DEF Detect, FromPse, FromTerminal, SetList, Choose,
                    InitApplication, GiveUp, OnlineInv
<1>4. CASE Authenticate \/ ProcessRestrictions \/ ManageRisk
  BY <1>4, <1>e DEF Authenticate, ProcessRestrictions, ManageRisk, Finish,
                    OnlineInv
<1>5. CASE StartCvm \/ TryEntry
  BY <1>5, <1>e DEF StartCvm, TryEntry, CvmFails, CvmSucceeds, EndCvm,
                    OnlineInv
<1>6. CASE ReadTries \/ InputPin \/ VerifyPin
  BY <1>6, <1>e DEF ReadTries, InputPin, VerifyPin, CvmFails, CvmSucceeds,
                    EndCvm, OnlineInv
<1>7. CASE AnalyseAction
  <2>1. pc = "action" /\ pc' = "processed"
        /\ (need_online' => RequestedAc = "ARQC")
    BY <1>7 DEF AnalyseAction, GiveUp, OnlineInv
  <2>2. CASE ret' = "ERROR"
    BY <2>1, <2>2 DEF OnlineInv
  <2>3. CASE ret' # "ERROR"
    <3>1. PICK cid \in AtMost(RequestedAc) :
            \E a : tlv' = [tvr |-> tvr', tsi |-> tsi', cvmr |-> tlv.cvmr,
                          arc |-> a, cid |-> cid]
      BY <1>7, <2>3 DEF AnalyseAction, GiveUp
    <3>2. RequestedAc = "ARQC" => tlv'.cid # "TC"
      BY <3>1 DEF AtMost
    <3> QED
      BY <2>1, <3>2 DEF OnlineInv
  <2> QED
    BY <2>2, <2>3
<1>8. CASE GoOnline
  <2>1. tlv'.cid = tlv.cid
    BY <1>8 DEF GoOnline, SavedInv, TagsKept
  <2> QED
    BY <1>8, <2>1 DEF GoOnline, OnlineInv
<1>9. CASE ExternalAuthenticate \/ FirstScript
  BY <1>9 DEF ExternalAuthenticate, FirstScript, OnlineInv
<1>10. CASE SecondGenerate \/ SecondScript
  BY <1>10 DEF SecondGenerate, SecondScript, OnlineInv
<1>11. CASE UNCHANGED vars
  BY <1>11 DEF vars, results, OnlineInv
<1> QED
  BY <1>1, <1>2, <1>3, <1>4, <1>5, <1>6, <1>7, <1>8, <1>9, <1>10, <1>11
  DEF Next, Process, Complete

(* An approval in the TLV was earned, also while the second script runs.   *)
EarnedInv ==
  /\ ApprovalIsEarned
  /\ pc = "script72" /\ tlv.cid = "TC" => host.arc = "00"

(* The card is asked for an approval only if no code forbids it.           *)
LEMMA AskedForTc ==
  ASSUME RequestedAc = "TC", Facts \subseteq tlv.tvr
  PROVE  /\ Facts \cap (Card.denial \cup Terminal.denial) = {}
         /\ Facts \cap (Card.default \cup Terminal.default) = {}
         /\ Terminal.support_online =>
              /\ ~Requested.force
              /\ Facts \cap (Card.online \cup Terminal.online) = {}
BY DEF RequestedAc, Matches

(* The inductive step of EarnedInv.                                        *)
LEMMA EarnedStep ==
  EarnedInv /\ FactsInv /\ SavedInv /\ OnlineInv /\ [Next]_vars => EarnedInv'
<1> SUFFICES ASSUME EarnedInv, FactsInv, SavedInv, OnlineInv, [Next]_vars
             PROVE  EarnedInv'
  OBVIOUS
<1>a. ASSUME pc' \notin {"processed", "completed", "script72"}
      PROVE  EarnedInv'
  BY <1>a DEF EarnedInv, ApprovalIsEarned
<1>e. ASSUME pc' = "processed" \/ pc' = "completed", ret' # "OK"
      PROVE  EarnedInv'
  BY <1>e DEF EarnedInv, ApprovalIsEarned
<1>1. CASE Begin \/ End
  BY <1>1, <1>a DEF Begin, End
<1>2. CASE Withdraw
  BY <1>2, FactsStay DEF Withdraw, chosen, results, people, EarnedInv,
                         ApprovalIsEarned
<1>3. CASE Detect \/ FromPse \/ FromTerminal \/ Choose \/ InitApplication
  BY <1>3, <1>a, <1>e DEF Detect, FromPse, FromTerminal, SetList, Choose,
                          InitApplication, GiveUp
<1>4. CASE Authenticate \/ ProcessRestrictions
  BY <1>4, <1>a, <1>e DEF Authenticate, ProcessRestrictions, Finish
<1>5. CASE StartCvm
  BY <1>5, <1>a, <1>e DEF StartCvm, EndCvm
<1>6. CASE TryEntry
  BY <1>6, <1>a, <1>e DEF TryEntry, CvmFails, CvmSucceeds, EndCvm
<1>7. CASE ReadTries
  BY <1>7, <1>a, <1>e DEF ReadTries, CvmFails, EndCvm
<1>8. CASE InputPin
  BY <1>8, <1>a, <1>e DEF InputPin, CvmFails, CvmSucceeds, EndCvm
<1>9. CASE VerifyPin
  BY <1>9, <1>a, <1>e DEF VerifyPin, CvmSucceeds, EndCvm
<1>10. CASE ManageRisk
  BY <1>10, <1>a DEF ManageRisk, Finish
<1>11. CASE AnalyseAction
  <2>1. pc = "action" /\ pc' = "processed" /\ UNCHANGED <<people, aip>>
    BY <1>11 DEF AnalyseAction, GiveUp, chosen
  <2>2. ret' = "OK" /\ tlv'.cid = "TC" => RequestedAc = "TC"
    <3> SUFFICES ASSUME ret' = "OK", tlv'.cid = "TC"
                 PROVE  RequestedAc = "TC"
      OBVIOUS
    <3>1. PICK cid \in AtMost(RequestedAc) :
            \E a : tlv' = [tvr |-> tvr', tsi |-> tsi', cvmr |-> tlv.cvmr,
                          arc |-> a, cid |-> cid]
      BY <1>11 DEF AnalyseAction, GiveUp
    <3>2. cid = "TC"
      BY <3>1
    <3>3. RequestedAc \in {"TC", "ARQC", "AAC"}
      BY DEF RequestedAc
    <3> QED
      BY <3>1, <3>2, <3>3 DEF AtMost
  <2>3. Facts \subseteq tlv.tvr
    BY <2>1 DEF FactsInv, SavedInv, Ahead, Facts, AuthFacts, LimitFacts,
                RiskFacts, AfterAuth, AfterLimits
  <2> QED
    BY <2>1, <2>2, <2>3, AskedForTc, FactsStay
    DEF EarnedInv, ApprovalIsEarned
<1>12. CASE GoOnline \/ ExternalAuthenticate \/ FirstScript
  BY <1>12, <1>a DEF GoOnline, ExternalAuthenticate, FirstScript
<1>13. CASE SecondGenerate
  <2>1. CASE pc' = "completed"
    BY <1>13, <2>1, <1>e DEF SecondGenerate
  <2>2. CASE pc' # "completed"
    <3>1. PICK cid \in AtMost(SecondRequest) \cup {tlv.cid} :
            tlv' = [tlv EXCEPT !.cid = cid]
      BY <1>13, <2>2 DEF SecondGenerate
    <3>2. tlv'.cid = "TC" => cid = "TC"
      BY <3>1 DEF SavedInv, TagsKept
    <3>c. tlv.cid # "TC"
      BY <1>13 DEF SecondGenerate, OnlineInv, Online
    <3>3. tlv'.cid = "TC" => host.arc = "00"
      BY <3>1, <3>2, <3>c DEF SecondRequest, AtMost
    <3>4. pc' = "script72" /\ host' = host
      BY <1>13, <2>2 DEF SecondGenerate, people
    <3> QED
      BY <3>3, <3>4 DEF EarnedInv, ApprovalIsEarned
  <2> QED
    BY <2>1, <2>2
<1>14. CASE SecondScript
  <2>1. tlv'.cid = tlv.cid
    BY <1>14 DEF SecondScript, SavedInv, TagsKept
  <2> QED
    BY <1>14, <2>1 DEF SecondScript, people, EarnedInv, ApprovalIsEarned
<1>15. CASE UNCHANGED vars
  BY <1>15, FactsStay DEF vars, chosen, results, people, EarnedInv,
                          ApprovalIsEarned
<1> QED
  BY <1>1, <1>2, <1>3, <1>4, <1>5, <1>6, <1>7, <1>8, <1>9, <1>10, <1>11,
     <1>12, <1>13, <1>14, <1>15 DEF Next, Process, Complete

(* A transaction is approved offline only if none of the facts its data    *)
(* amount to is one that issuer or acquirer want refused or sent online,   *)
(* and online only if the host has approved it.                            *)
THEOREM ApprovalsAreEarned == Spec => []ApprovalIsEarned
<1>1. Init => FactsInv /\ OnlineInv /\ EarnedInv
  BY DEF Init, FactsInv, OnlineInv, Online, EarnedInv, ApprovalIsEarned,
         AfterLimits, AfterAuth, Looping
<1>2. EarnedInv => ApprovalIsEarned
  BY DEF EarnedInv
<1>3. Spec => []FactsInv
  BY <1>1, FactsStep, PTL DEF Spec
<1>4. Spec => []OnlineInv
  BY <1>1, OnlineStep, SavedInvariant, PTL DEF Spec
<1> QED
  BY <1>1, <1>2, <1>3, <1>4, EarnedStep, SavedInvariant, PTL DEF Spec
=============================================================================
