CONSTANTS
  Urls = {u1}
  TrialRefuseDataUploadAfter = 1
  NotifyPendingExpiryPeriod = 1
  MaxDay = 3
  MaxEvents = 2
SPECIFICATION FairSpec
 
INVARIANT MailedOnce
INVARIANT CleanedIsGone
PROPERTY DelinquentIsRefused
PROPERTY DeletedIsMarked
