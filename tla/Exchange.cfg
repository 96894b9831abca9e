\* From the files of one machine to the plan on another.
SPECIFICATION Spec
CONSTANTS
    None = None
    Manual = Manual
    MissingMap = MissingMap
    Plain = Plain
    DeviceKey = DeviceKey
    OtherKey = OtherKey
    lab1 = lab1
    lab2 = lab2
    lab3 = lab3
    dir1 = dir1
    dir2 = dir2
    dst1 = dst1
    dst2 = dst2
    txt1 = txt1
    txt2 = txt2
    pass1 = pass1
    odd = "odd*name"
    token = "token.md"
    SameName = {"rule a", "rule A"}
    DataFiles = {"icon.png"}
    BadLabels = {lab3}
    Unportable = {"odd*name"}
    SecretNames = {"token.md"}
    MaxEntries = 9
    MaxBytes = 18
    Scenes <- MCScenes
    Maps <- MCMaps
    Capsule <- MCCapsule
INVARIANTS
    OpenedIsPublished
    UndamagedOpens
    CleanExports
    OncePerSource
    CredentialsAndCodeHeldBack
    
CHECK_DEADLOCK FALSE
