-------------------------- MODULE MCAlertService --------------------------
(* AlertService with an allowed score, a LOW and a MEDIUM one of the same    *)
(* alert type: TelegramNotifier is skipped for the LOW one.                  *)
EXTENDS AlertService

MCScores  == {40, 55, 82}
MCPushers == {"telegram"}
=============================================================================
