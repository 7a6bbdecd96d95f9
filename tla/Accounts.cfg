SPECIFICATION Spec
CONSTANTS
    k1 = k1  k2 = k2  k3 = k3  k4 = k4  u1 = u1  u2 = u2  d1 = d1  d2 = d2
    r1 = r1  r2 = r2  g1 = g1  g2 = g2  a1 = a1
    Keys = {k1, k2, k3, k4}  Users = {u1, u2}  Devices = {d1, d2}
    Owner <- MCOwner
    Requests = {r1, r2}
    Approvals = {"auto", "mail", "sms"}
    AllowDeviceReg = TRUE
    AllowMultipleUsersPerDevice = FALSE
    Budgets <- MCBudgets
    Tokens = {t1}
    MaxLoginAttempts = 2
    SecondMethods = {"biometric", "otp", "sms"}
    OtpLockDevice = TRUE
    WebDevices = {d2}
    Groups = {g1, g2}  Apps = {a1}  AllGroup = g1  Admins = {w1, w2}
    Name <- MCName  AdDomain <- MCAdDomain
    sd1 = sd1  sd2 = sd2  sd3 = sd3  s1 = s1  s2 = s2
    StorageDevices = {sd1, sd2, sd3}
    DeviceKind <- MCDeviceKind
    Configured = {"account", "telephony"}
    StorageThreads = {s1, s2}
    StorageBudgets <- MCStorageBudgets
SYMMETRY MCSymmetry
INVARIANTS ActiveHasDevice OneAccountPerDevice NoFactorForFree AppsAreOwed SessionHasItsFolder ImageIsFree
PROPERTIES PrivateAppsStay DataStays
CHECK_DEADLOCK FALSE
