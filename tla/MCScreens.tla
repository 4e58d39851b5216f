------------------------------ MODULE MCScreens ------------------------------
(* Small instances, for TLC, of invoicing and of what the pages say of a plan,  *)
(* of the app it pays for, of its dates and of its backups.  They meet in no     *)
(* variable: a behaviour moves one and leaves the others where they were made.   *)
EXTENDS MCInvoicing, PlanScreens, TenantScreens, PlanDates, BackupScreens

VARIABLE part

allVars == <<part, vars, screenVars, tenantVars, dateVars, backupVars>>

\* The month ends around one leap February and one that is not.
MCLooks ==
  {look \in {2023, 2024, 2025} \X {1, 2, 3, 12} \X {28, 29, 31} :
     /\ IsDay(look)
     /\ look[1] = 2023 => look[2] = 12
     /\ look[1] > 2023 => look[2] # 12}

MCInit ==
  /\ part \in {"invoices", "screens", "tenant", "dates", "backups"}
  /\ Init /\ ScreenInit /\ TenantInit /\ DateInit /\ BackupInit
  /\ part # "invoices" => seller /\ buyer /\ ~review
  /\ part # "screens" => payer = "nobody" /\ details = "none"
  /\ part # "dates" => onDay = <<2024, 2, 29>> /\ months = 1
  /\ part # "backups" => listing = "provisioning" /\ ~deletable

MCNext ==
  \/ part = "invoices" /\ Next /\ UNCHANGED <<part, screenVars, tenantVars, dateVars, backupVars>>
  \/ part = "screens" /\ ScreenNext /\ UNCHANGED <<part, vars, tenantVars, dateVars, backupVars>>
  \/ part = "tenant" /\ TenantNext /\ UNCHANGED <<part, vars, screenVars, dateVars, backupVars>>
  \/ part = "dates" /\ DateNext /\ UNCHANGED <<part, vars, screenVars, tenantVars, backupVars>>
  \/ part = "backups" /\ BackupNext /\ UNCHANGED <<part, vars, screenVars, tenantVars, dateVars>>

MCSpec == MCInit /\ [][MCNext]_allVars

\* What a page says of a plan's money, of the app it pays for, of its dates and of its
\* backups is what the code behind the page would do: each conjunct is stated in its module.
ScreensAgree ==
  /\ [](/\ part = "screens" =>
             ScreenTypeOK /\ AskedIsAccepted /\ PaidIsNotAskedAgain /\ PagesShowTheNewest
        /\ part = "tenant" => TenantTypeOK /\ LinkHasAnswered /\ PaidIsTold
        /\ part = "dates" => FormIsGranted /\ DefaultStaysInMonth /\ ChargeLiesAhead
        /\ part = "backups" =>
             BackupTypeOK /\ OfferedIsAccepted /\ PageAndAlarmAgree /\ NoFalseDeadline /\ PromiseIsKept)
  /\ LinkIsEarned /\ ClaimsNeverShrink /\ TrialOnlyGrows /\ PaidStaysSeen
=============================================================================
