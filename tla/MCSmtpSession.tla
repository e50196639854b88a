----------------------------- MODULE MCSmtpSession -----------------------------
(* One message, with AUTH and STARTTLS: small enough for liveness. *)
EXTENDS SmtpSession

Live == [asks |-> {"EHLO", "MAIL", "RCPT", "DATA", "AUTH", "STARTTLS"}, greets |-> FALSE,
         lines |-> 7, text |-> 1, eager |-> FALSE, requireAuth |-> FALSE]

MCLive == {Live}
=============================================================================
