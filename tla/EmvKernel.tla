----------------------------- MODULE EmvKernel -----------------------------
(***************************************************************************)
(* The EMV kernel, emv_lib/core: one transaction after the other, from     *)
(* emv_step_transaction_begin to emv_step_transaction_end, with a card     *)
(* that may be withdrawn at any moment, commands whose answer is lost, a   *)
(* cardholder at the PIN pad and a host that may not be reached.           *)
(*                                                                         *)
(* Cards, terminals and requests are records of what the kernel looks at;  *)
(* bits of the TVR and the TSI are members of sets, with the names of the  *)
(* fields of the session.  A step between two commands to the card is one  *)
(* action.  The card, the reader, the PIN pad and the host are external.   *)
(***************************************************************************)
EXTENDS Integers, FiniteSets, SequencesExt

CONSTANTS
  Cards, Terminals, Requests, Hosts,   (* records of data, by their names *)
  MaxTries,     (* the PIN try counter of a card after a right PIN         *)
  MaxGlitches,  (* bound on the commands that fail with the card present   *)
  Missing       (* a tag that is not there                                 *)

(* An entry of a CVM list.                                                 *)
CvmRule == [type: STRING, condition: STRING, continue: BOOLEAN]

ASSUME EmvAssumption ==
  /\ MaxTries \in Nat \ {0} /\ MaxGlitches \in Nat
  /\ Missing \notin DOMAIN Cards \cup DOMAIN Terminals \cup DOMAIN Requests
  /\ \A c \in DOMAIN Cards :
       Cards[c].cvm = Missing \/ Cards[c].cvm \in Seq(CvmRule)

(* Fields of the TVR by the step that clears them.                         *)
AuthBits   == {"cda_failed", "dda_failed", "sda_failed"}
LimitBits  == {"version_inconformity", "app_expired", "app_effective",
               "unallowed_service"}
CvmBits    == {"cardholder_failed", "pin_retry_limit", "pinpad_failed",
               "not_input_pin", "input_online_pin"}
(* Mutant: the bits of the step before are cleared as well.                *)
RiskAndLimitBits == LimitBits \cup
  {"amount_lower_limit", "exceed_offline_lower_limit",
   "exceed_offline_upper_limit", "random_online", "force_online"}

RiskBits   == {"amount_lower_limit", "exceed_offline_lower_limit",
               "exceed_offline_upper_limit", "random_online", "force_online"}
ActionBits == {"icc_verify_failed", "gac_before_failed", "gac_after_failed"}

VARIABLES
  terminal, card, request, host,   (* who takes part                       *)
  present, glitches, tries,        (* the card in the reader               *)
  pc, ret, open,
  candidates, app_parameter, aip, icc_pk, tvr, tsi, cvmr,  (* the session  *)
  tlv,          (* tags the kernel has saved                               *)
  need_online,
  next, pin,    (* the CVM in progress and the PIN that was entered        *)
  told,         (* history: what the first GENERATE AC told the card       *)
  verified      (* history: the card has accepted a PIN                    *)

reader  == <<present, glitches, tries>>
people  == <<terminal, card, request, host>>
chosen  == <<candidates, app_parameter, aip, icc_pk>>
results == <<tvr, tsi, cvmr, tlv>>
history == <<told, verified>>
vars == <<people, reader, pc, ret, open, chosen, results, need_online, next,
          pin, history>>

Card      == Cards[card]
Terminal  == Terminals[terminal]
Requested == Requests[request]

NoTags == [tvr |-> {}, tsi |-> {}, cvmr |-> Missing, arc |-> Missing,
           cid |-> Missing]

(* Mutant: the response code is left over for the next one.                *)
DeinitKeepsArc ==
  /\ open' = FALSE
  /\ candidates' = <<>> /\ app_parameter' = Missing /\ aip' = {}
  /\ icc_pk' = FALSE /\ tvr' = {} /\ tsi' = {} /\ cvmr' = Missing
  /\ tlv' = [NoTags EXCEPT !.arc = tlv.arc]
  /\ next' = 0 /\ pin' = Missing /\ told' = Missing /\ verified' = FALSE
  /\ card' = Missing /\ host' = Missing /\ present' = FALSE
  /\ glitches' = 0 /\ tries' = 0 /\ need_online' = FALSE

(* emv_session_deinit: the reader is closed, the session is zeroed.        *)
Deinit ==
  /\ open' = FALSE
  /\ candidates' = <<>> /\ app_parameter' = Missing /\ aip' = {}
  /\ icc_pk' = FALSE /\ tvr' = {} /\ tsi' = {} /\ cvmr' = Missing
  /\ tlv' = NoTags
  /\ next' = 0 /\ pin' = Missing /\ told' = Missing /\ verified' = FALSE
  /\ card' = Missing /\ host' = Missing /\ present' = FALSE
  /\ glitches' = 0 /\ tries' = 0 /\ need_online' = FALSE

Init ==
  /\ terminal \in DOMAIN Terminals /\ request = Missing
  /\ pc = "idle" /\ ret = "OK" /\ open = FALSE
  /\ candidates = <<>> /\ app_parameter = Missing /\ aip = {}
  /\ icc_pk = FALSE /\ tvr = {} /\ tsi = {} /\ cvmr = Missing
  /\ tlv = NoTags
  /\ next = 0 /\ pin = Missing /\ told = Missing /\ verified = FALSE
  /\ card = Missing /\ host = Missing /\ present = FALSE
  /\ glitches = 0 /\ tries = 0 /\ need_online = FALSE

(* emv_step_transaction_begin and the call of emv_step_transaction_process *)
Begin ==
  /\ pc \in {"idle", "processed", "completed"}
  /\ Deinit
  /\ \E r \in DOMAIN Requests : request' = r
  /\ pc' = "detect" /\ ret' = "OK"
  /\ UNCHANGED terminal

End ==
  /\ pc \in {"processed", "completed"}
  /\ Deinit
  /\ request' = Missing /\ pc' = "idle" /\ ret' = "OK"
  /\ UNCHANGED terminal

-----------------------------------------------------------------------------
(* A command to the card is answered, or not.  That the card may ask for   *)
(* the command again (6C) or for GET RESPONSE (61), as often as it wants,  *)
(* is part of its being answered.                                          *)
Answered == present /\ UNCHANGED reader

Lost == \/ ~present /\ UNCHANGED reader
        \/ /\ present /\ glitches < MaxGlitches /\ glitches' = glitches + 1
           /\ UNCHANGED <<present, tries>>

Withdraw ==
  /\ present /\ present' = FALSE
  /\ UNCHANGED <<people, glitches, tries, pc, ret, open, chosen, results,
                 need_online, next, pin, history>>

GiveUp(error) == ret' = error /\ pc' = "processed"

(* emv_step_detect_card.                                                   *)
Detect ==
  /\ pc = "detect"
  /\ \/ \E c \in DOMAIN Cards, n \in 0 .. MaxTries :
          /\ card' = c /\ tries' = n /\ present' = TRUE /\ open' = TRUE
          /\ pc' = "pse" /\ UNCHANGED ret
     \/ /\ GiveUp("ERROR")
        /\ UNCHANGED <<card, tries, present, open>>
  /\ UNCHANGED <<terminal, request, host, glitches, chosen, results,
                 need_online, next, pin, history>>

-----------------------------------------------------------------------------
(* emv_app_selection.c.                                                    *)

Supported == {Terminal.aids[i] : i \in DOMAIN Terminal.aids}

(* 0 stands for no priority and goes last.                                 *)
Before(p, q) == p # 0 /\ (q = 0 \/ p < q)

(* _candidate_app_sort_by_priority_indicator: the rest of the list is      *)
(* compared with the priority that the element at i had at first.          *)
Swap(s, i, j) == [s EXCEPT ![i] = s[j], ![j] = s[i]]

SortFrom(s, i) ==
  LET prio == s[i].prio
      Compare(t, j) ==
        IF j > i /\ Before(t[j].prio, prio) THEN Swap(t, i, j) ELSE t
  IN FoldLeftDomain(Compare, s, s)

SortedList(s) == FoldLeftDomain(SortFrom, s, s)

SetList(s) ==
  IF s = <<>>
  THEN candidates' = <<>> /\ GiveUp("ERROR")
  ELSE candidates' = SortedList(s) /\ pc' = "choose" /\ UNCHANGED ret

(* _build_candidates_from_pse: a record that cannot be read ends the list, *)
(* and what was found stays in it.                                         *)
FromPse ==
  LET found == SelectSeq(Card.apps, LAMBDA a : a.aid \in Supported) IN
  /\ pc = "pse"
  /\ \/ /\ Answered /\ Card.pse /\ found # <<>>
        /\ SetList(found)
     \/ /\ \/ Answered /\ (~Card.pse \/ found = <<>>) /\ candidates' = <<>>
           \/ /\ Lost
              /\ \E n \in 0 .. Len(found) :
                   candidates' = SubSeq(found, 1, IF Card.pse THEN n ELSE 0)
        /\ pc' = "aids" /\ UNCHANGED ret
  /\ UNCHANGED <<people, open, app_parameter, aip, icc_pk, results,
                 need_online, next, pin, history>>

(* _build_candidates_from_terminal_aid: an application whose SELECT fails  *)
(* is left out, one that is in the list already is not added again.  The   *)
(* loop of SELECT next, which ends when the card has no more applications  *)
(* of the name, is in this step: of a name the card has them all at once.  *)
FromTerminal ==
  LET known == {candidates[i].aid : i \in DOMAIN candidates}
      Of(aid) == SelectSeq(Card.apps, LAMBDA a : a.aid = aid)
      Add(list, aid) == IF aid \in known THEN list ELSE list \o Of(aid)
      Without(lost) == SelectSeq(Terminal.aids, LAMBDA a : a \notin lost)
  IN
  /\ pc = "aids"
  /\ \E lost \in SUBSET Supported :
       /\ IF lost = {} THEN Answered
          ELSE Lost /\ (~present => lost = Supported)
       /\ \E list \in {FoldLeft(Add, candidates, Without(lost))} : SetList(list)
  /\ UNCHANGED <<people, open, app_parameter, aip, icc_pk, results,
                 need_online, next, pin, history>>

(* _select_app_from_candidate_list, which asks if there are several, and   *)
(* the final SELECT.                                                       *)
Choose ==
  /\ pc = "choose"
  /\ candidates' = <<>>
  /\ \/ /\ \E i \in DOMAIN candidates : app_parameter' = candidates[i].aid
        /\ \/ Answered /\ pc' = "init" /\ UNCHANGED ret
           \/ Lost /\ GiveUp("ERROR")
     \/ /\ Len(candidates) > 1 /\ GiveUp("ERROR")
        /\ UNCHANGED <<app_parameter, reader>>
  /\ UNCHANGED <<people, open, aip, icc_pk, results, need_online, next, pin,
                 history>>

(* emv_app_init: GET PROCESSING OPTIONS and the records.                   *)
InitApplication ==
  /\ pc = "init"
  /\ \/ Answered /\ aip' = Card.aip /\ pc' = "auth" /\ UNCHANGED ret
     \/ Lost /\ aip' \in {aip, Card.aip} /\ GiveUp("ERROR")
  /\ UNCHANGED <<people, open, candidates, app_parameter, icc_pk, results,
                 need_online, next, pin, history>>

-----------------------------------------------------------------------------
(* Mutant: a step that fails does not save.                                *)
FinishUnsaved(newTvr, newTsi, error, step) ==
  /\ tvr' = newTvr /\ tsi' = newTsi
  /\ tlv' = IF error # "OK" THEN tlv
            ELSE [tlv EXCEPT !.tvr = newTvr, !.tsi = newTsi]
  /\ ret' = error /\ pc' = IF error = "OK" THEN step ELSE "processed"

(* Every step of the analysis saves the TVR and the TSI as it ends, also   *)
(* when it fails, and a step that fails ends the process.                  *)
Finish(newTvr, newTsi, error, step) ==
  /\ tvr' = newTvr /\ tsi' = newTsi
  /\ tlv' = [tlv EXCEPT !.tvr = newTvr, !.tsi = newTsi]
  /\ ret' = error /\ pc' = IF error = "OK" THEN step ELSE "processed"

(* emv_step_offline_authenticate, emv_offline_auth_set_tvr.                *)
Method ==
  LET both == aip \cap Terminal.security IN
  IF "cda" \in both THEN "cda" ELSE IF "dda" \in both THEN "dda"
  ELSE IF "sda" \in both THEN "sda" ELSE "none"

Failed(method) == [cda |-> "cda_failed", dda |-> "dda_failed",
                   sda |-> "sda_failed"][method]

Authenticate ==
  LET cleared == tvr \ AuthBits
      unmarked == cleared \ {"not_executed"}
      sound == Card.auth = "genuine" /\ Terminal.capk
  IN
  /\ pc = "auth"
  /\ \/ /\ Method = "none" /\ UNCHANGED <<reader, icc_pk>>
        /\ Finish(cleared \cup {"not_executed"},
                  tsi \ {"offline_authenticate"}, "OK", "restrict")
     \/ /\ Method # "none" /\ sound
        /\ IF Method = "dda" THEN Answered ELSE UNCHANGED reader
        /\ icc_pk' = (Method # "sda")
        /\ Finish(unmarked,
                  IF Method = "cda" THEN tsi \ {"offline_authenticate"}
                                    ELSE tsi \cup {"offline_authenticate"},
                  "OK", "restrict")
     \/ /\ Method # "none"
        /\ \/ ~sound /\ UNCHANGED <<reader, icc_pk>>
           \/ sound /\ Method = "dda" /\ Lost /\ icc_pk' = TRUE
        /\ Finish(unmarked \cup {Failed(Method)}
                    \cup (IF Card.auth = "missing" THEN {"card_data_missing"}
                                                   ELSE {}),
                  tsi \ {"offline_authenticate"}, "ERROR", "restrict")
  /\ UNCHANGED <<people, open, candidates, app_parameter, aip, cvmr,
                 need_online, next, pin, history>>

-----------------------------------------------------------------------------
(* emv_process_restrictions.c.                                             *)

Domestic == Card.country \in {Missing, Terminal.country}

IsAtmTerminal == Terminal.cash /\ Terminal.kind = "atm"

(* The rights that the transaction needs in the application usage control. *)
NeededRights ==
  LET region == IF Domestic THEN "domestic" ELSE "international" IN
  {<<region, Requested.type>>}
    \cup (IF Requested.type # "cash" THEN {}
          ELSE {<<IF IsAtmTerminal THEN "atm" ELSE "except_atm", "cash">>})
    \cup (IF Requested.other = 0 THEN {} ELSE {<<region, "cash_back">>})

DatedBits ==
  {b \in LimitBits :
     \/ b = "version_inconformity" /\ Card.version # Terminal.version
     \/ /\ b = "app_expired" /\ Requested.date # 0 /\ Card.expiry # Missing
        /\ Requested.date > Card.expiry
     \/ /\ b = "app_effective" /\ Requested.date # 0
        /\ Card.effective # Missing /\ Requested.date < Card.effective}

ProcessRestrictions ==
  /\ pc = "restrict"
  /\ IF Card.auc = Missing
     THEN Finish((tvr \ LimitBits) \cup DatedBits, tsi, "ERROR", "cvm")
     ELSE Finish((tvr \ LimitBits) \cup DatedBits
                   \cup (IF NeededRights \subseteq Card.auc THEN {}
                         ELSE {"unallowed_service"}), tsi, "OK", "cvm")
  /\ UNCHANGED <<people, reader, open, chosen, cvmr, need_online, next, pin,
                 history>>

-----------------------------------------------------------------------------
(* emv_cardholder_verify.c.                                                *)

Result(entry, result) ==
  [type |-> entry.type, condition |-> entry.condition, result |-> result]

NoEntry == [type |-> "unknown", condition |-> "always"]

(* The step's end, which saves the CVM results too.                        *)
EndCvm(newTvr, newTsi, results_, error) ==
  /\ cvmr' = results_ /\ next' = 0 /\ pin' = Missing
  /\ tvr' = newTvr /\ tsi' = newTsi
  /\ tlv' = [tlv EXCEPT !.tvr = newTvr, !.tsi = newTsi, !.cvmr = results_]
  /\ ret' = error /\ pc' = IF error = "OK" THEN "risk" ELSE "processed"

(* emv_step_cardholder_verification up to the loop over the list; one that *)
(* is too short to have an entry is malformed.                             *)
StartCvm ==
  LET cleared == (tvr \ CvmBits)
      unset   == tsi \ {"cardholder_verification"}
  IN
  /\ pc = "cvm"
  /\ \/ /\ "card_holder" \notin aip
        /\ EndCvm(tvr \ {"cardholder_failed"}, unset, cvmr, "OK")
     \/ /\ "card_holder" \in aip /\ Card.cvm \in {Missing, <<>>}
        /\ EndCvm(IF Card.cvm = Missing THEN cleared \cup {"card_data_missing"}
                                        ELSE cleared,
                  unset, Result(NoEntry, "unknown"), "ERROR")
     \/ /\ "card_holder" \in aip /\ Card.cvm \notin {Missing, <<>>}
        /\ tvr' = cleared /\ tsi' = unset
        /\ cvmr' = Result(NoEntry, "unknown")
        /\ next' = 1 /\ pc' = "entry"
        /\ UNCHANGED <<ret, pin, tlv>>
  /\ UNCHANGED <<people, reader, open, chosen, need_online, history>>

(* _check_cvm_condition.                                                   *)
Cash         == Terminal.cash /\ Requested.type = "cash"
IsAtmCash    == Cash /\ Terminal.kind = "atm"
IsManualCash == Cash /\ Terminal.kind = "attended"
IsCashback   == Requested.other # 0

Meets(condition) ==
  \/ condition = "always"
  \/ condition = "atm_cash" /\ IsAtmCash
  \/ condition = "no_cash" /\ ~(IsAtmCash \/ IsManualCash \/ IsCashback)
  \/ condition = "supported" /\ Terminal.cvm # {}
  \/ condition = "manual_cash" /\ IsManualCash
  \/ condition = "cashback" /\ IsCashback
  \/ condition = "below" /\ Card.home /\ Requested.amount < Card.money_x
  \/ condition = "above" /\ Card.home /\ Requested.amount > Card.money_x

Entry == Card.cvm[next]

OfflinePins == {"plaintext_pin", "encrypted_pin"}
KnownTypes == OfflinePins \cup {"online_pin", "signature", "no_cvm", "fail"}

(* Mutant: the error of an entry is not kept.                              *)
CvmFailsForgotten(newTvr, error) ==
  IF Entry.continue
  THEN /\ next' = next + 1 /\ tvr' = newTvr
       /\ pc' = "entry" /\ pin' = Missing
       /\ UNCHANGED <<ret, tsi, cvmr, tlv>>
  ELSE EndCvm(newTvr \cup {"cardholder_failed"},
              tsi \cup {"cardholder_verification"},
              Result(Entry, "failed"), "CVM_FAILED")

(* What becomes of the loop when _process_cvm has failed or succeeded.     *)
CvmFails(newTvr, error) ==
  IF Entry.continue
  THEN /\ next' = next + 1 /\ ret' = error /\ tvr' = newTvr
       /\ pc' = "entry" /\ pin' = Missing
       /\ UNCHANGED <<tsi, cvmr, tlv>>
  ELSE EndCvm(newTvr \cup {"cardholder_failed"},
              tsi \cup {"cardholder_verification"},
              Result(Entry, "failed"), "CVM_FAILED")

CvmSucceeds(newTvr) ==
  EndCvm(newTvr, tsi \cup {"cardholder_verification"},
         Result(Entry, "success"), "OK")

(* One turn of the loop, up to the first command or the PIN pad.  An       *)
(* offline PIN may have to go with a signature, which the code leaves out. *)
TryEntry ==
  /\ pc = "entry"
  /\ \/ /\ next > Len(Card.cvm)
        /\ EndCvm(tvr, tsi \cup {"cardholder_verification"}, cvmr, ret)
     \/ /\ next <= Len(Card.cvm)
        /\ \/ /\ ~Meets(Entry.condition) /\ next' = next + 1
              /\ UNCHANGED <<pc, ret, tvr, tsi, cvmr, tlv, pin>>
           \/ /\ Meets(Entry.condition)
              /\ Entry.type \in OfflinePins \cup {"online_pin"}
              /\ IF Entry.type = "online_pin" /\ "online_pin" \notin Terminal.cvm
                 THEN CvmFails(tvr, "ERROR")
                 ELSE /\ pc' = IF Entry.type = "online_pin" THEN "input"
                                                            ELSE "tries"
                      /\ UNCHANGED <<ret, next, tvr, tsi, cvmr, tlv, pin>>
           \/ /\ Meets(Entry.condition)
              /\ Entry.type \in {"signature", "no_cvm"}
              /\ IF Entry.type \in Terminal.cvm THEN CvmSucceeds(tvr)
                                                ELSE CvmFails(tvr, "ERROR")
           \/ /\ Meets(Entry.condition) /\ Entry.type = "fail"
              /\ CvmFails(tvr, "CVM_FAILED")
           \/ /\ Meets(Entry.condition) /\ Entry.type \notin KnownTypes
              /\ CvmFails(tvr, "ERROR")
  /\ UNCHANGED <<people, reader, open, chosen, need_online, history>>

(* Mutant: the counter is not looked at.                                   *)
ReadAnyTries ==
  /\ pc = "tries"
  /\ \/ /\ Answered /\ pc' = "input"
        /\ UNCHANGED <<ret, next, tvr, tsi, cvmr, tlv, pin>>
     \/ Lost /\ CvmFails(tvr, "ERROR")
  /\ UNCHANGED <<people, open, chosen, need_online, history>>

(* Mutant: GET DATA is repeated when it fails.                             *)
ReadTriesAgain ==
  /\ pc = "tries"
  /\ \/ /\ tries > 0 /\ Answered /\ pc' = "input"
        /\ UNCHANGED <<ret, next, tvr, tsi, cvmr, tlv, pin>>
     \/ /\ tries = 0 /\ Answered
        /\ CvmFails(tvr \cup {"pin_retry_limit"}, "CVM_FAILED")
     \/ Lost /\ UNCHANGED <<pc, ret, next, tvr, tsi, cvmr, tlv, pin>>
  /\ UNCHANGED <<people, open, chosen, need_online, history>>

(* GET DATA for the PIN try counter, at the label Retry.                   *)
ReadTries ==
  /\ pc = "tries"
  /\ \/ /\ Answered /\ tries > 0 /\ pc' = "input"
        /\ UNCHANGED <<ret, next, tvr, tsi, cvmr, tlv, pin>>
     \/ /\ Answered /\ tries = 0
        /\ CvmFails(tvr \cup {"pin_retry_limit"}, "CVM_FAILED")
     \/ Lost /\ CvmFails(tvr, "ERROR")
  /\ UNCHANGED <<people, open, chosen, need_online, history>>

(* input_pin_callback and what is tested before the PIN is sent.           *)
InputPin ==
  /\ pc = "input"
  /\ \/ CvmFails(tvr \cup {"not_input_pin"}, "CVM_FAILED") /\ UNCHANGED reader
     \/ CvmFails(tvr \cup {"pinpad_failed"}, "CVM_FAILED") /\ UNCHANGED reader
     \/ /\ Entry.type = "online_pin" /\ UNCHANGED reader
        /\ CvmSucceeds(tvr \cup {"input_online_pin"})
     \/ /\ Entry.type \in OfflinePins
        /\ \/ Entry.type \notin Terminal.cvm
           \/ Entry.type = "encrypted_pin" /\ ~icc_pk
        /\ CvmFails(tvr, "ERROR") /\ UNCHANGED reader
     \/ /\ Entry.type \in OfflinePins \cap Terminal.cvm
        /\ Entry.type = "encrypted_pin" => icc_pk
        /\ \/ /\ IF Entry.type = "encrypted_pin" THEN Answered  (* challenge *)
                                                 ELSE UNCHANGED reader
              /\ pin' \in {"right", "wrong"} /\ pc' = "verify"
              /\ UNCHANGED <<ret, next, tvr, tsi, cvmr, tlv>>
           \/ /\ Entry.type = "encrypted_pin" /\ Lost
              /\ CvmFails(tvr, "CVM_FAILED")
  /\ UNCHANGED <<people, open, chosen, need_online, history>>

(* VERIFY; after any failure the try counter is read again.  A command     *)
(* whose answer is lost may have reached the card.                         *)
Checked ==
  IF pin = "right" /\ tries > 0
  THEN tries' = MaxTries /\ verified' = TRUE
  ELSE tries' = (IF tries > 0 THEN tries - 1 ELSE 0) /\ UNCHANGED verified

VerifyPin ==
  /\ pc = "verify"
  /\ \/ /\ present /\ Checked /\ UNCHANGED <<present, glitches>>
        /\ IF pin = "right" /\ tries > 0
           THEN CvmSucceeds(tvr)
           ELSE /\ pc' = "tries" /\ pin' = Missing
                /\ UNCHANGED <<ret, next, tvr, tsi, cvmr, tlv>>
     \/ /\ \/ Lost /\ UNCHANGED verified
           \/ /\ present /\ glitches < MaxGlitches
              /\ glitches' = glitches + 1 /\ UNCHANGED present
              /\ Checked
        /\ pc' = "tries" /\ pin' = Missing
        /\ UNCHANGED <<ret, next, tvr, tsi, cvmr, tlv>>
  /\ UNCHANGED <<people, open, chosen, need_online, told>>

-----------------------------------------------------------------------------
(* emv_risk_management.c.                                                  *)

BothLimits == {"exceed_offline_lower_limit", "exceed_offline_upper_limit"}

(* _check_velocity with both transaction counters at hand.                 *)
VelocityBits ==
  IF Card.last_atc >= Card.atc THEN BothLimits
  ELSE {b \in BothLimits :
          /\ Card.lower # Missing /\ Card.upper # Missing
          /\ Card.atc - Card.last_atc >
               (IF b = "exceed_offline_lower_limit" THEN Card.lower
                                                    ELSE Card.upper)}

NewCard == IF Card.last_atc = 0 THEN {"new_card"} ELSE {}

ManageRisk ==
  LET cleared == tvr \ (RiskBits \cup {"new_card"})
      unset   == tsi \ {"terminal_risk_management"}
      forced  == IF Requested.force THEN {"force_online"} ELSE {}
      amount  == IF Requested.amount >= Terminal.floor_limit
                 THEN {"amount_lower_limit"} ELSE {}
  IN
  /\ pc = "risk"
  /\ \/ /\ "exec_risk" \notin aip /\ UNCHANGED reader
        /\ Finish(cleared, unset, "OK", "action")
     \/ /\ "exec_risk" \in aip
        /\ \E random \in SUBSET (IF Terminal.target = 0 THEN {}
                                 ELSE {"random_online"}),
             velocity \in {VelocityBits \cup NewCard, BothLimits,
                           BothLimits \cup NewCard} :
             /\ IF velocity = VelocityBits \cup NewCard
                THEN Answered ELSE Lost
             /\ Finish(cleared \cup forced \cup amount \cup random
                         \cup velocity,
                       unset \cup {"terminal_risk_management"}, "OK",
                       "action")
  /\ UNCHANGED <<people, open, chosen, cvmr, need_online, next, pin, history>>

-----------------------------------------------------------------------------
(* emv_action_analysis.c.                                                  *)

(* _match_action_code, on the TVR that is in the TLV.                      *)
Matches(iac, tac) == (iac \cup tac) \cap tlv.tvr # {}

RequestedAc ==
  IF Matches(Card.denial, Terminal.denial) THEN "AAC"
  ELSE IF /\ Terminal.support_online
          /\ \/ Requested.force \/ Matches(Card.online, Terminal.online)
             \/ ~Terminal.support_offline
  THEN "ARQC"
  ELSE IF Matches(Card.default, Terminal.default) THEN "AAC" ELSE "TC"

(* The card may answer with less than it was asked for.                    *)
AtMost(type) ==
  CASE type = "TC" -> {"TC", "ARQC", "AAC"} [] type = "ARQC" -> {"ARQC", "AAC"}
    [] type = "AAC" -> {"AAC"}

CdaRequested == "cda" \in aip /\ "cda" \in Terminal.security /\ icc_pk

(* emv_offline_auth_cda_verify_sdad: what is changed by its outcome.       *)
CdaOutcomes ==
  IF ~CdaRequested THEN {<<tvr, tsi>>}
  ELSE {<<tvr \ {"not_executed", "cda_failed"},
          tsi \cup {"offline_authenticate"}>>,
        <<(tvr \ {"not_executed"}) \cup {"cda_failed"}, tsi>>,
        <<(tvr \ {"not_executed"}) \cup {"cda_failed", "card_data_missing"},
          tsi>>}

(* The first GENERATE AC may fail: CDOL1 cannot be built, the card refuses *)
(* it or says nothing, or does not say what its cryptogram is.             *)
AnalyseAction ==
  LET cleared == tvr \ ActionBits
      unset   == tsi \ {"card_risk_management"}
      arc     == CASE RequestedAc = "AAC" -> "Z1" [] RequestedAc = "TC" -> "Y1"
                   [] RequestedAc = "ARQC" -> tlv.arc
  IN
  /\ pc = "action"
  /\ need_online' = (need_online \/ RequestedAc = "ARQC")
  /\ \/ /\ Lost \/ UNCHANGED reader
        /\ told' \in {told, [type |-> RequestedAc, tvr |-> tlv.tvr]}
        /\ tvr' = cleared /\ tsi' = unset
        /\ tlv' = [tlv EXCEPT !.tvr = cleared, !.tsi = unset, !.arc = arc]
        /\ GiveUp("ERROR")
     \/ /\ Answered
        /\ told' = [type |-> RequestedAc, tvr |-> tlv.tvr]
        /\ \E cid \in AtMost(RequestedAc) \cup {Missing},
             outcome \in CdaOutcomes :
             /\ tvr' = outcome[1] \ ActionBits
             /\ tsi' = outcome[2] \cup {"card_risk_management"}
             /\ tlv' = [tvr |-> tvr', tsi |-> tsi', cvmr |-> tlv.cvmr,
                        arc |-> arc, cid |-> cid]
             /\ GiveUp(IF cid = Missing THEN "ERROR"
                       ELSE IF cid = "AAC" THEN "CARD_DENIED" ELSE "OK")
  /\ UNCHANGED <<people, open, chosen, cvmr, next, pin, verified>>

-----------------------------------------------------------------------------
(* emv_online_complete.c: the caller has the host's answer, or knows that  *)
(* the host has not answered.                                              *)
GoOnline ==
  /\ pc = "processed" /\ ret = "OK" /\ need_online
  /\ \E h \in Hosts :
       /\ host' = h
       /\ tlv' = [tlv EXCEPT !.arc = IF h.arc = Missing THEN @ ELSE h.arc]
  /\ pc' = "external"
  /\ UNCHANGED <<terminal, card, request, reader, ret, open, chosen, tvr, tsi,
                 cvmr, need_online, next, pin, history>>

ExternalAuthenticate ==
  /\ pc = "external"
  /\ \/ ~host.arpc /\ UNCHANGED <<reader, tvr, tsi>>
     \/ /\ host.arpc /\ tsi' = tsi \cup {"issuing_bank_verification"}
        /\ \/ Answered /\ tvr' \in {tvr, tvr \cup {"icc_verify_failed"}}
           \/ Lost /\ tvr' = tvr \cup {"icc_verify_failed"}
  /\ pc' = "script71"
  /\ UNCHANGED <<people, ret, open, chosen, cvmr, tlv, need_online, next, pin,
                 history>>

(* _process_issuer_script.                                                 *)
Script(given, bit) ==
  \/ ~given /\ UNCHANGED <<reader, tvr, tsi>>
  \/ /\ given /\ Answered
     /\ tsi' = tsi \cup {"issuing_bank_script"} /\ UNCHANGED tvr
  \/ /\ given /\ (Answered \/ Lost)
     /\ tvr' = tvr \cup {bit} /\ UNCHANGED tsi

FirstScript ==
  /\ pc = "script71"
  /\ Script(host.script71, "gac_before_failed")
  /\ pc' = "gac2"
  /\ UNCHANGED <<people, ret, open, chosen, cvmr, tlv, need_online, next, pin,
                 history>>

(* The second GENERATE AC; if it fails, or neither CDOL2 nor CDOL1 can be  *)
(* built, the second script is not run.  An answer that does not say what  *)
(* its cryptogram is leaves what the first one was.                        *)
SecondRequest == IF host.arc = "00" THEN "TC" ELSE "AAC"

SecondGenerate ==
  /\ pc = "gac2"
  /\ \/ /\ Lost \/ UNCHANGED reader
        /\ ret' = "ERROR" /\ pc' = "completed"
        /\ tlv' = [tlv EXCEPT !.tvr = tvr, !.tsi = tsi]
        /\ UNCHANGED <<tvr, tsi>>
     \/ /\ Answered
        /\ \E cid \in (AtMost(SecondRequest) \ {"ARQC"}) \cup {tlv.cid},
             outcome \in CdaOutcomes :
             /\ tvr' = outcome[1] /\ tsi' = outcome[2]
             /\ tlv' = [tlv EXCEPT !.cid = cid]
        /\ pc' = "script72" /\ UNCHANGED ret
  /\ UNCHANGED <<people, open, chosen, cvmr, need_online, next, pin, history>>

SecondScript ==
  /\ pc = "script72"
  /\ Script(host.script72, "gac_after_failed")
  /\ tlv' = [tlv EXCEPT !.tvr = tvr', !.tsi = tsi']
  /\ ret' = "OK" /\ pc' = "completed"
  /\ UNCHANGED <<people, open, chosen, cvmr, need_online, next, pin, history>>

-----------------------------------------------------------------------------
Process ==
  \/ Detect \/ FromPse \/ FromTerminal \/ Choose \/ InitApplication
  \/ Authenticate \/ ProcessRestrictions \/ StartCvm \/ TryEntry
  \/ ReadTries \/ InputPin \/ VerifyPin \/ ManageRisk \/ AnalyseAction

Complete ==
  \/ ExternalAuthenticate \/ FirstScript \/ SecondGenerate \/ SecondScript

Next == Begin \/ End \/ Withdraw \/ Process \/ GoOnline \/ Complete

Spec == Init /\ [][Next]_vars

(* Commands, callbacks and the kernel's own steps come to an end.          *)
FairSpec == Spec /\ WF_vars(Process) /\ WF_vars(Complete)

-----------------------------------------------------------------------------
(* What a step leaves to the next, and what the caller and the card are    *)
(* told, is what the session holds: the action codes are compared with the *)
(* TVR in the TLV, not with that of the session.                           *)
SavedIsCurrent ==
  /\ pc \in {"restrict", "cvm", "risk", "action", "processed", "completed"}
       => tlv.tvr = tvr /\ tlv.tsi = tsi
  /\ pc = "action" => tlv.cvmr = cvmr

(* What the data of card, terminal and request amount to by themselves.    *)
Facts ==
  DatedBits
    \cup (IF NeededRights \subseteq Card.auc THEN {}
                                             ELSE {"unallowed_service"})
    \cup (IF Method = "none" THEN {"not_executed"} ELSE {})
    \cup (IF "exec_risk" \notin Card.aip THEN {}
          ELSE (IF Requested.force THEN {"force_online"} ELSE {})
                 \cup (IF Requested.amount >= Terminal.floor_limit
                       THEN {"amount_lower_limit"} ELSE {}))

(* A transaction is approved offline only if none of these facts is one    *)
(* that issuer or acquirer want refused, or sent online by a terminal that *)
(* can go online: what a step has found of them no later one loses.  It is *)
(* approved online only if the host has approved it.  The facts are those  *)
(* of the data; it does not speak of what the cardholder did, of the       *)
(* counters of the card, nor of a dynamic signature that is found wrong    *)
(* when the first cryptogram is there (it sets its bit and the approval    *)
(* stands).                                                                *)
ApprovalIsEarned ==
  ret = "OK" /\ tlv.cid = "TC" =>
    /\ pc = "processed" =>
         /\ Facts \cap (Card.denial \cup Terminal.denial) = {}
         /\ Facts \cap (Card.default \cup Terminal.default) = {}
         /\ Terminal.support_online =>
              ~Requested.force /\ Facts \cap (Card.online \cup Terminal.online) = {}
    /\ pc = "completed" => host.arc = "00"

(* The process goes on past the verification of the cardholder only if a   *)
(* method has succeeded, an offline PIN being one that the card accepted   *)
(* in this transaction, or if no method's condition was met: methods that  *)
(* failed with leave to continue are not forgotten.                        *)
CvmVerdict ==
  pc \in {"risk", "action"} /\ "card_holder" \in aip =>
    \/ /\ cvmr.result = "success" /\ "cardholder_failed" \notin tvr
       /\ cvmr.type \in OfflinePins => verified
       /\ cvmr.type = "online_pin" => "input_online_pin" \in tvr
    \/ /\ cvmr.result = "unknown"
       /\ \A i \in DOMAIN Card.cvm : ~Meets(Card.cvm[i].condition)

(* No PIN is sent to a card that has no tries left.                        *)
PinNotBeyondTries == pc = "verify" => tries > 0

(* The authorisation response code that the second GENERATE AC tells the   *)
(* card is the host's, and there is none if the host was not reached.      *)
ArcIsFromHost == pc = "gac2" => tlv.arc = host.arc

(* The candidates are in the order of their priority when the cardholder   *)
(* is to choose.                                                           *)
SortedByPriority ==
  pc = "choose" =>
    \A i, j \in DOMAIN candidates :
      i < j => ~Before(candidates[j].prio, candidates[i].prio)

(* A call of the kernel returns, however often the cardholder mistypes the *)
(* PIN and whenever the card goes.  This is about the loops over entries   *)
(* and PINs: of the commands of a transaction MaxGlitches may be lost at   *)
(* most, and a card does not go on asking for GET RESPONSE, or naming      *)
(* applications, for ever (emv_cmd.c and emv_app_selection.c would follow  *)
(* it).                                                                    *)
ProcessReturns ==
  pc \notin {"idle", "processed", "completed"} ~> pc \in {"processed", "completed"}
=============================================================================
