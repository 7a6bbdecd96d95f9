CONSTANTS
    p1 = p1
    p2 = p2
    h1 = h1
    h2 = h2
    Processes = {p1, p2}
    Hosts = {h1, h2}
    HostOf <- MCHostOf
    Secrets = {"a"}
    t1 = t1
    t2 = t2
    t3 = t3
    PluginThreads = {t1, t2, t3}
    PluginBudgets <- MCPluginBudgets
    Excused = {"pair", "module", "host"}
    w1 = w1
    n1 = n1
    Nodes = {w1, n1}
    Workers = {w1}
    l1 = l1
    l2 = l2
    l3 = l3
    LoadThreads = {l1, l2, l3}
    OwnerOf <- MCOwnerOf
    NumOfTreads = 2
    EncryptConf = TRUE
    InDocker = FALSE
    Hidden = {"global"}
    SettingsBudgets <- MCSettingsBudgets
    m1 = m1
    m2 = m2
    Texts = {m1, m2}
    MessageThreads = {t1, t2, t3}
    SmsRoutes = {"remote", "provider", "script", "none"}
    LastSession = 2
    SlowStore = FALSE
    MessageBudgets <- MCMessageBudgets
    a1 = a1
    a2 = a2
    a3 = a3
    Rows = {a1, a2, a3}
    ImeiOf <- MCImeiOf
    LastToken = 3
    PushThreads = {t1, t2, t3}
    PushBudgets <- MCPushBudgets
SYMMETRY MCSymmetry
SPECIFICATION Spec
INVARIANTS PluginsAgree SecretIsKept SettingsAgree MessagesArrive NeverTargeted
CHECK_DEADLOCK FALSE
