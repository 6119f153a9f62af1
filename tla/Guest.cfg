SPECIFICATION FairSpec
CONSTANTS
    Element = {"lan", "a", "off"}
    Order <- MCOrder
    Startup <- MCOrder
    Lan = {"lan"}
    Enabled = {"lan", "a"}
    Policy <- MCPolicy
    Forking = {"a"}
    Recipes = {r1, r2}
    NoRecipe = NoRecipe
    Unset = Unset
    MaxFailures = 2
    MaxDown = 4
    MaxBoots = 2
INVARIANTS StopSticks QuietAfterShutdown AcceptedIsStored
PROPERTIES RecipeKept BackoffKept KeptRunning
