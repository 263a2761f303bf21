------------------------------- MODULE MCSmtp -------------------------------
(* An address and the empty one tell the recipients apart; one user name and  *)
(* one password beside the empty ones suffice where only their presence        *)
(* matters.  Eight lines are a message begun in the clear, the upgrade to TLS  *)
(* and a message after it: EHLO MAIL RCPT STARTTLS EHLO MAIL RCPT DATA; seven  *)
(* are AUTH and a message: EHLO AUTH user password MAIL RCPT DATA.  A message  *)
(* is up to three lines: fields of two names, a continuation with or without   *)
(* a colon, blank lines, and an indented dot.                                  *)
EXTENDS SmtpSession

CONSTANTS alice, root, secret, Received, Subject

MCAddrs == {alice, Nothing}
MCUsers == {root, Nothing}
MCPasswords == {secret, Nothing}
MCNames == {Received, Subject}
Text(indented, holds) == [indented |-> indented, holds |-> holds]
MCTexts == {Text(FALSE, Received), Text(FALSE, Subject), Text(TRUE, "words"),
            Text(TRUE, Received), Text(FALSE, "nothing"), Text(TRUE, "dot")}
=============================================================================
