---------------------------- MODULE MCEmvKernel ----------------------------
(* A handful of cards, terminals and requests; every field of theirs has   *)
(* at least two values that the kernel tells apart.                        *)
EXTENDS EmvKernel
CONSTANTS debit, credit, prepaid

AllRights == ({"domestic", "international"}
                 \X {"goods", "service", "cash", "cash_back"})
               \cup ({"atm", "except_atm"} \X {"cash"})
AllBits == AuthBits \cup LimitBits \cup CvmBits \cup RiskBits \cup ActionBits
             \cup {"not_executed", "card_data_missing", "new_card"}

App(a, p) == [aid |-> a, prio |-> p]
Cvm(t, c, k) == [type |-> t, condition |-> c, continue |-> k]

(* Chip and PIN, signed dynamically, with a fallback to paper.             *)
PinCard ==
  [apps |-> <<App(debit, 1)>>, pse |-> TRUE,
   aip |-> {"dda", "card_holder", "exec_risk"}, auth |-> "genuine",
   version |-> 1, effective |-> 1, expiry |-> 2, auc |-> AllRights,
   country |-> 156, home |-> TRUE, money_x |-> 2,
   cvm |-> <<Cvm("encrypted_pin", "supported", TRUE),
             Cvm("plaintext_pin", "above", TRUE),
             Cvm("signature", "no_cash", TRUE), Cvm("fail", "atm_cash", FALSE)>>,
   last_atc |-> 1, atc |-> 3, lower |-> 1, upper |-> 3,
   denial |-> {}, online |-> {"exceed_offline_lower_limit"},
   default |-> {"exceed_offline_upper_limit"}]

(* A new card, which signs its cryptograms.                                *)
NewCdaCard ==
  [PinCard EXCEPT !.aip = {"cda", "card_holder", "exec_risk"},
     !.last_atc = 0, !.lower = Missing, !.country = Missing,
     !.online = {"new_card", "input_online_pin"},
     !.cvm = <<Cvm("online_pin", "above", FALSE), Cvm("no_cvm", "below", TRUE),
               Cvm("biometric", "manual_cash", TRUE),
               Cvm("plaintext_pin", "manual_cash", FALSE),
               Cvm("signature", "cashback", FALSE)>>]

(* Several applications, no directory, an issuer abroad, no data to sign.  *)
OldCard ==
  [PinCard EXCEPT !.apps = <<App(debit, 3), App(credit, 1), App(prepaid, 2)>>,
     !.pse = FALSE, !.aip = {}, !.country = 840,
     !.expiry = Missing, !.version = 0,
     !.auc = {<<"international", "goods">>, <<"international", "service">>},
     !.default = AllBits, !.denial = {"unallowed_service"}]

(* A directory, and records that are not all there.                        *)
PoorCard ==
  [OldCard EXCEPT !.pse = TRUE, !.aip = {"sda", "card_holder"},
     !.apps = <<App(prepaid, 0), App(debit, 2)>>,
     !.version = 1, !.default = {"app_effective"}, !.denial = {},
     !.effective = 3, !.cvm = Missing]

ForgedCard == [PinCard EXCEPT !.aip = {"dda", "sda"}, !.auth = "forged",
                              !.auc = Missing]

MCCards ==
  [pin |-> PinCard, cda |-> NewCdaCard, old |-> OldCard, poor |-> PoorCard,
   unlisted |-> [PinCard EXCEPT !.cvm = <<>>], forged |-> ForgedCard,
   plain |-> [ForgedCard EXCEPT !.aip = {}],
   bare |-> [ForgedCard EXCEPT !.aip = {"sda"}, !.auth = "missing"]]

Shop ==
  [aids |-> <<debit, credit, prepaid>>, security |-> {"cda", "dda", "sda"},
   capk |-> TRUE, cvm |-> {"encrypted_pin", "plaintext_pin", "online_pin",
                           "signature", "no_cvm"},
   kind |-> "attended", cash |-> TRUE, country |-> 156, version |-> 1,
   floor_limit |-> 3, target |-> 0,
   support_online |-> TRUE, support_offline |-> TRUE,
   denial |-> {}, online |-> {"amount_lower_limit", "random_online"},
   default |-> {"app_expired"}]

(* An unattended terminal without a line.                                  *)
Vending ==
  [Shop EXCEPT !.aids = <<prepaid, debit>>, !.security = {"dda"},
     !.kind = "unattended", !.cvm = {"plaintext_pin", "no_cvm"},
     !.support_online = FALSE, !.denial = {"app_expired"}, !.cash = FALSE]

CashMachine ==
  [Shop EXCEPT !.kind = "atm", !.support_offline = FALSE, !.target = 50,
     !.capk = FALSE, !.floor_limit = 1]

MCTerminals == [shop |-> Shop, vending |-> Vending, atm |-> CashMachine]

Purchase == [type |-> "goods", amount |-> 1, other |-> 0, date |-> 2,
             force |-> FALSE]
MCRequests ==
  [small |-> Purchase,
   large |-> [Purchase EXCEPT !.amount = 3, !.other = 1, !.date = 3],
   cash |-> [Purchase EXCEPT !.type = "cash", !.date = 0, !.amount = 3],
   forced |-> [Purchase EXCEPT !.type = "service", !.force = TRUE]]

Host(a, p, s, t) == [arc |-> a, arpc |-> p, script71 |-> s, script72 |-> t]
MCHosts == {Host("00", TRUE, FALSE, TRUE), Host("05", FALSE, TRUE, FALSE),
            Host(Missing, FALSE, FALSE, FALSE)}
=============================================================================
